---- MODULE Spec2Model ----
(***************************************************************************)
(* Container provisioning of the worker package (atc/worker), as found in  *)
(* src/atc/exec/step.go: containerProvider.FindOrCreateContainer and the   *)
(* collaborators it drives (the container records of db.Worker, the garden *)
(* runtime, the volume client, the container-creating lock).               *)
(*                                                                         *)
(* One owner is modelled.  Every record of that owner has its own handle   *)
(* (1..MaxHandles); the lock is keyed by the record, as in                 *)
(* lock.NewContainerCreatingLockID(creatingContainer.ID()).                *)
(* Each caller is one goroutine/process running FindOrCreateContainer, one *)
(* collaborator call per step; a caller that has returned may call again.  *)
(***************************************************************************)
EXTENDS Integers, FiniteSets, Sequences, TLC

\* ------------------------------------------------------------------ bounds
NumCallers == 2
MaxCalls == 3
MaxHandles == 2
MaxFaults == 1

Callers == 1..NumCallers
Handles == 1..MaxHandles

VARIABLES
    records,            \* handle -> "absent" | "creating" | "created" | "failed"
    garden,             \* handles of the containers the runtime holds
    volumes,            \* <<handle, mount>> of the volumes allocated
    locks,              \* handle -> caller holding the creating lock, 0 = free
    containersCreated,  \* metric.ContainersCreated
    failedContainers,   \* metric.FailedContainers
    pc,                 \* caller -> position in FindOrCreateContainer
    cur,                \* caller -> handle of its creatingContainer/createdContainer
    gardenContainer,    \* caller -> its local gardenContainer is non-nil
    result,             \* caller -> what its last call returned
    done,               \* caller -> what its current (or last) call has done
    nDestroy,           \* caller -> Destroy invocations of its current (or last) call
    err,                \* caller -> the error its call is about to return, "nil" if none
    calls,              \* calls of FindOrCreateContainer started
    faults,             \* collaborator calls that have failed
    creationLog,        \* <<caller, "fetch" | "create">>: who ever fetched the image
                        \* or invoked the runtime's Create
    containerSpec,      \* the ContainerSpec given to createGardenContainer
    plan,               \* what one run of createGardenContainer did
    worker,             \* the worker Satisfying is asked about
    workerSpec,         \* the WorkerSpec given to Satisfying
    satisfying,         \* what Satisfying returned
    workerVersion,      \* dbWorker.Version() of the worker asked for its version
    comparedVersion,    \* the version IsVersionCompatible compares it with
    versionCompatible,  \* what IsVersionCompatible returned
    resolution,         \* Satisfying run statement by statement: the locals of
                        \* determineUnderlyingTypeName and the results returned
    lookup,             \* one call of FindCreatedContainerByHandle: its arguments,
                        \* what its collaborators answered and what it returned
    group,              \* the dashboard Group given to shiftPipelines
    dragIndex,          \* the index of the pipeline being dragged
    dropIndex,          \* the index of the drop area it is dropped on
    shifted             \* what shiftPipelines returned

\* The state of the provisioner (FindOrCreateContainer and its collaborators).
provisionerVars ==
    <<records, garden, volumes, locks, containersCreated, failedContainers,
      pc, cur, gardenContainer, result, done, nDestroy, err, calls,
      faults, creationLog>>

\* The state of the functions studied on their own (the mount plan of
\* createGardenContainer, the matcher Satisfying), which no step of the
\* provisioner touches.
mountVars == <<containerSpec, plan>>

matcherVars == <<worker, workerSpec, satisfying>>

versionVars == <<workerVersion, comparedVersion, versionCompatible>>

resolveVars == <<resolution>>

lookupVars == <<lookup>>

shiftVars == <<group, dragIndex, dropIndex, shifted>>

pureVars == <<mountVars, matcherVars, versionVars, resolveVars, lookupVars, shiftVars>>

vars == <<provisionerVars, pureVars>>

dbVars == <<records>>
localVars == <<cur, gardenContainer, err>>
metricVars == <<containersCreated, failedContainers>>

\* The errors a call can return, by the collaborator call that produced them.
Errors == {"ErrGetImage", "ErrFind", "ErrCreateContainer", "ErrLookup", "ErrContainerNotFound",
           "ErrAcquire", "ErrFetch", "ErrVolume", "ErrGardenCreate",
           "ErrCreated", "ErrFindVolumes"}

\* ------------------------------------------------- collaborators' contracts

\* db.Worker.FindContainerOnWorker: the owner's record that is not failed, or 0.
LiveRecord ==
    IF \E h \in Handles : records[h] \in {"creating", "created"}
    THEN CHOOSE h \in Handles : records[h] \in {"creating", "created"}
    ELSE 0

\* The handle db.Worker.CreateContainer gives a new record.
FreshHandle ==
    CHOOSE h \in Handles :
        records[h] = "absent" /\ \A k \in 1..(h-1) : records[k] # "absent"

HasFreshHandle == \E h \in Handles : records[h] = "absent"

\* CreateContainer gives every call a record of its own.
CreateContainerHandleNotIdempotent == IF HasFreshHandle THEN FreshHandle ELSE LiveRecord

\* db.Worker.CreateContainer, idempotent per owner: the owner's live record when
\* there is one, a new record otherwise.
CreateContainerHandle == IF LiveRecord # 0 THEN LiveRecord ELSE FreshHandle

\* Failed() applies to a record in any state.
CanMarkFailedAnyState(h) == records[h] # "absent"

\* creatingContainer.Created(): the transition applies to a creating (or already
\* created) record.
CanMarkCreated(h) == records[h] \in {"creating", "created"}

\* creatingContainer.Failed(): the transition applies to a creating (or already
\* failed) record.
CanMarkFailed(h) == records[h] \in {"creating", "failed"}

\* ------------------------------------------------------------------ return

ReturnKeepingLock(c, r) ==
    /\ pc' = [pc EXCEPT ![c] = "start"]
    /\ result' = [result EXCEPT ![c] = r]
    /\ UNCHANGED locks

\* A return statement of FindOrCreateContainer: the deferred lock.Release() of
\* line 226 runs when the call holds the lock.
Return(c, r) ==
    /\ pc' = [pc EXCEPT ![c] = "start"]
    /\ result' = [result EXCEPT ![c] = r]
    /\ locks' = [h \in Handles |-> IF locks[h] = c THEN 0 ELSE locks[h]]

Mark(c, what) ==
    /\ done' = [done EXCEPT ![c] = @ \cup what]
    /\ creationLog' = creationLog \cup {<<c, w>> : w \in what \cap {"fetch", "create"}}


\* A collaborator call whose error the code acts on fails: at most MaxFaults of
\* them do in one behaviour.  (The failures of the best-effort Failed() and
\* Destroy(), whose errors are dropped, are not counted.)
Fault ==
    /\ faults < MaxFaults
    /\ faults' = faults + 1

\* ------------------------------------------------------------------- Init

ProvisionerInit ==
    /\ records = [h \in Handles |-> "absent"]
    /\ garden = {}
    /\ volumes = {}
    /\ locks = [h \in Handles |-> 0]
    /\ containersCreated = 0
    /\ failedContainers = 0
    /\ pc = [c \in Callers |-> "start"]
    /\ cur = [c \in Callers |-> 0]
    /\ gardenContainer = [c \in Callers |-> FALSE]
    /\ result = [c \in Callers |-> "none"]
    /\ done = [c \in Callers |-> {}]
    /\ nDestroy = [c \in Callers |-> 0]
    /\ err = [c \in Callers |-> "nil"]
    /\ calls = 0
    /\ faults = 0
    /\ creationLog = {}

\* No mount plan is under way.
MountsIdle ==
    /\ containerSpec = [inputs |-> <<>>, outputs |-> {}, dir |-> "", bindMounts |-> <<>>]
    /\ plan = [status |-> "idle"]

\* No worker is being matched.
MatcherIdle ==
    /\ worker = [teamID |-> 0, resourceTypes |-> {}, platform |-> "linux", tags |-> {}]
    /\ workerSpec = [teamID |-> 0, resourceType |-> "", resourceTypes |-> <<>>,
                     platform |-> "", tags |-> {}]
    /\ satisfying = [status |-> "idle"]

\* No version is being compared.
VersionIdle ==
    /\ workerVersion = [present |-> FALSE, parses |-> FALSE, release |-> <<>>]
    /\ comparedVersion = <<0>>
    /\ versionCompatible = "none"

NoResolution ==
    [status |-> "idle", underlyingTypeName |-> "", underlyingType |-> "",
     ok |-> FALSE, typesMap |-> <<>>, substitutions |-> 0, results |-> <<>>]

\* Satisfying is not being run statement by statement.
ResolveIdle == resolution = NoResolution

NoLookup ==
    [status |-> "idle", handle |-> 0, teamID |-> 0, gardenErr |-> "none",
     dbErr |-> "none", dbFound |-> FALSE, container |-> 0, found |-> FALSE,
     err |-> "nil"]

\* FindCreatedContainerByHandle is not being called.
LookupIdle == lookup = NoLookup

\* No pipeline is being dropped.
ShiftIdle ==
    /\ group = [teamName |-> "", pipelines |-> <<>>]
    /\ dragIndex = 0
    /\ dropIndex = 0
    /\ shifted = [status |-> "idle"]

PureIdle ==
    MountsIdle /\ MatcherIdle /\ VersionIdle /\ ResolveIdle /\ LookupIdle /\ ShiftIdle

Init == ProvisionerInit /\ PureIdle

\* ------------------------------------------- FindOrCreateContainer, by step

\* Entry of a call: the locals of the previous call are gone.
Enter(c, what) ==
    /\ calls' = calls + 1
    /\ done' = [done EXCEPT ![c] = what]
    /\ nDestroy' = [nDestroy EXCEPT ![c] = 0]
    /\ gardenContainer' = [gardenContainer EXCEPT ![c] = FALSE]
    /\ err' = [err EXCEPT ![c] = "nil"]
    /\ UNCHANGED creationLog

\* FindContainerOnWorker answers (nil, nil) even for a created record: the call
\* goes on to create.
FindContainerOnWorkerIgnoringCreated(c) ==
    /\ pc[c] = "start"
    /\ calls < MaxCalls
    /\ Enter(c, IF LiveRecord # 0 /\ records[LiveRecord] = "created"
                THEN {"foundCreated"} ELSE {})
    /\ cur' = [cur EXCEPT ![c] = 0]
    /\ pc' = [pc EXCEPT ![c] = "createInDb"]
    /\ result' = [result EXCEPT ![c] = "none"]
    /\ UNCHANGED <<pureVars, faults, records, garden, volumes, locks, metricVars>>

\* Lines 746-757 of gardenWorker.FindOrCreateContainer: imageFactory.GetImage
\* returned an error, which is returned before containerProvider's
\* FindOrCreateContainer is called.
GetImageErr(c) ==
    /\ pc[c] = "start"
    /\ calls < MaxCalls
    /\ Enter(c, {})
    /\ cur' = [cur EXCEPT ![c] = 0]
    /\ Return(c, "ErrGetImage")
    /\ Fault
    /\ UNCHANGED <<pureVars, records, garden, volumes, metricVars>>

\* Lines 746-768 and 161-204: GetImage succeeded; p.worker.FindContainerOnWorker(owner)
\* and the branch on what it returned.
FindContainerOnWorker(c) ==
    /\ pc[c] = "start"
    /\ calls < MaxCalls
    /\ LET h == LiveRecord IN
        /\ Enter(c, IF h = 0 THEN {}
                    ELSE IF records[h] = "created" THEN {"foundCreated"}
                    ELSE {"foundCreating"})
        /\ cur' = [cur EXCEPT ![c] = h]
        /\ pc' = [pc EXCEPT ![c] =
                    IF h = 0 THEN "createInDb"
                    ELSE IF records[h] = "created" THEN "lookupCreated"
                    ELSE "lookupCreating"]
    /\ result' = [result EXCEPT ![c] = "none"]
    /\ UNCHANGED <<pureVars, faults, records, garden, volumes, locks, metricVars>>

\* Lines 164-167: FindContainerOnWorker returned an error.
FindContainerOnWorkerErr(c) ==
    /\ pc[c] = "start"
    /\ calls < MaxCalls
    /\ Enter(c, {})
    /\ cur' = [cur EXCEPT ![c] = 0]
    /\ Return(c, "ErrFind")
    /\ Fault
    /\ UNCHANGED <<pureVars, records, garden, volumes, metricVars>>

\* Lines 187-200: p.worker.CreateContainer(owner, metadata), idempotent per
\* owner.
CreateContainer(c) ==
    /\ pc[c] = "createInDb"
    /\ LiveRecord # 0 \/ HasFreshHandle
    /\ LET h == CreateContainerHandle IN
        /\ records' = [records EXCEPT ![h] = IF @ = "absent" THEN "creating" ELSE @]
        /\ cur' = [cur EXCEPT ![c] = h]
    /\ Mark(c, {"record"})
    /\ pc' = [pc EXCEPT ![c] = "lookupCreating"]
    /\ UNCHANGED <<pureVars, faults, garden, volumes, locks, metricVars, gardenContainer, err,
                   result, nDestroy, calls>>

\* Lines 194-197: CreateContainer returned an error.
CreateContainerErr(c) ==
    /\ pc[c] = "createInDb"
    /\ Mark(c, {"record"})
    /\ Return(c, "ErrCreateContainer")
    /\ Fault
    /\ UNCHANGED <<pureVars, records, garden, volumes, metricVars, localVars, nDestroy, calls>>

\* The container that Lookup found is not used: the call goes on to the lock.
LookupCreatingIgnoringFound(c) ==
    /\ pc[c] = "lookupCreating"
    /\ gardenContainer' = [gardenContainer EXCEPT ![c] = FALSE]
    /\ pc' = [pc EXCEPT ![c] = "acquire"]
    /\ UNCHANGED <<pureVars, faults, records, garden, volumes, locks, metricVars, cur, err, result,
                   done, creationLog, nDestroy, calls>>

\* Lines 206-214: p.gardenClient.Lookup(creatingContainer.Handle());
\* ContainerNotFoundError is not an error here.
LookupCreating(c) ==
    /\ pc[c] = "lookupCreating"
    /\ gardenContainer' = [gardenContainer EXCEPT ![c] = cur[c] \in garden]
    /\ pc' = [pc EXCEPT ![c] = IF cur[c] \in garden THEN "markCreated" ELSE "acquire"]
    /\ UNCHANGED <<pureVars, faults, records, garden, volumes, locks, metricVars, cur, err, result,
                   done, creationLog, nDestroy, calls>>

\* The record is marked failed before the lookup's error is returned.
LookupCreatingErrMarkingFailed(c) ==
    /\ pc[c] = "lookupCreating"
    /\ records' = [records EXCEPT ![cur[c]] = IF CanMarkFailed(cur[c]) THEN "failed" ELSE @]
    /\ Mark(c, {"failed"})
    /\ Return(c, "ErrLookup")
    /\ Fault
    /\ UNCHANGED <<pureVars, garden, volumes, metricVars, localVars, nDestroy, calls>>

\* Lines 207-211: Lookup returned an error other than ContainerNotFoundError.
LookupCreatingErr(c) ==
    /\ pc[c] = "lookupCreating"
    /\ Return(c, "ErrLookup")
    /\ Fault
    /\ UNCHANGED <<pureVars, records, garden, volumes, metricVars, localVars, done, creationLog,
                   nDestroy, calls>>

\* Lines 215-226: p.lockFactory.Acquire(...) granted the lock; the release is
\* deferred to the return.
Acquire(c) ==
    /\ pc[c] = "acquire"
    /\ locks[cur[c]] = 0
    /\ locks' = [locks EXCEPT ![cur[c]] = c]
    /\ Mark(c, {"lock"})
    /\ pc' = [pc EXCEPT ![c] = "fetch"]
    /\ UNCHANGED <<pureVars, faults, records, garden, volumes, metricVars, localVars, result,
                   nDestroy, calls>>

\* The lock is held by another caller, and the call goes on to fetch the image
\* all the same.
AcquireDeniedFallingThrough(c) ==
    /\ pc[c] = "acquire"
    /\ locks[cur[c]] # 0
    /\ Mark(c, {"denied"})
    /\ pc' = [pc EXCEPT ![c] = "fetch"]
    /\ UNCHANGED <<pureVars, faults, records, garden, volumes, locks, metricVars, localVars, result,
                   nDestroy, calls>>

\* Lines 221-224: the lock is held by another caller (acquired = false): the
\* call returns (nil, nil).
AcquireDenied(c) ==
    /\ pc[c] = "acquire"
    /\ locks[cur[c]] # 0
    /\ Mark(c, {"denied"})
    /\ Return(c, "deferred")
    /\ UNCHANGED <<pureVars, faults, records, garden, volumes, metricVars, localVars, nDestroy, calls>>

\* The error of Acquire is handled as a failed creation: the record is marked
\* failed and the failure counted.
AcquireErrCountingFailure(c) ==
    /\ pc[c] = "acquire"
    /\ records' = [records EXCEPT ![cur[c]] = IF CanMarkFailed(cur[c]) THEN "failed" ELSE @]
    /\ failedContainers' = failedContainers + 1
    /\ Mark(c, {"failed"})
    /\ Return(c, "ErrAcquire")
    /\ Fault
    /\ UNCHANGED <<pureVars, garden, volumes, containersCreated, localVars, nDestroy, calls>>

\* Lines 216-219: Acquire returned an error.
AcquireErr(c) ==
    /\ pc[c] = "acquire"
    /\ Return(c, "ErrAcquire")
    /\ Fault
    /\ UNCHANGED <<pureVars, records, garden, volumes, metricVars, localVars, done, creationLog,
                   nDestroy, calls>>

\* Line 230: image.FetchForContainer(ctx, logger, creatingContainer) succeeded.
FetchForContainer(c) ==
    /\ pc[c] = "fetch"
    /\ Mark(c, {"fetch"})
    /\ pc' = [pc EXCEPT ![c] = "volumes"]
    /\ UNCHANGED <<pureVars, faults, records, garden, volumes, locks, metricVars, localVars, result,
                   nDestroy, calls>>

\* Lines 230-231: FetchForContainer returned an error.
FetchForContainerErr(c) ==
    /\ pc[c] = "fetch"
    /\ Mark(c, {"fetch"})
    /\ err' = [err EXCEPT ![c] = "ErrFetch"]
    /\ pc' = [pc EXCEPT ![c] = "fetchFailed"]
    /\ Fault
    /\ UNCHANGED <<pureVars, records, garden, volumes, locks, metricVars, cur,
                   gardenContainer, result, nDestroy, calls>>

\* The fetch error is returned without the call of Failed().
FailedAfterFetchSkipped(c) ==
    /\ pc[c] = "fetchFailed"
    /\ Return(c, err[c])
    /\ UNCHANGED <<pureVars, faults, records, garden, volumes, metricVars, localVars, done,
                   creationLog, nDestroy, calls>>

\* Lines 232-234: creatingContainer.Failed(), its result dropped, and the
\* return of the fetch error.
FailedAfterFetch(c) ==
    /\ pc[c] = "fetchFailed"
    /\ records' = [records EXCEPT ![cur[c]] =
                      IF CanMarkFailed(cur[c]) THEN "failed" ELSE @]
    /\ Mark(c, {"failed"})
    /\ Return(c, err[c])
    /\ UNCHANGED <<pureVars, faults, garden, volumes, metricVars, localVars, nDestroy, calls>>

\* Lines 232-234 when Failed() itself returns an error: the record stays.
FailedAfterFetchErr(c) ==
    /\ pc[c] = "fetchFailed"
    /\ Mark(c, {"failed"})
    /\ Return(c, err[c])
    /\ UNCHANGED <<pureVars, faults, records, garden, volumes, metricVars, localVars, nDestroy, calls>>

\* Lines 361-510 of createGardenContainer: the volumes of the mount plan are
\* found or created (the scratch volume, then those of the inputs and outputs).
CreateVolumes(c) ==
    /\ pc[c] = "volumes"
    /\ volumes' = volumes \cup {<<cur[c], "scratch">>, <<cur[c], "io">>}
    /\ Mark(c, {"volume"})
    /\ pc' = [pc EXCEPT ![c] = "gardenCreate"]
    /\ UNCHANGED <<pureVars, faults, records, garden, locks, metricVars, localVars, result,
                   nDestroy, calls>>

\* A failed mount plan deletes the volumes of the container.
CreateVolumesErrCleaningUp(c) ==
    /\ pc[c] = "volumes"
    /\ volumes' = {v \in volumes : v[1] # cur[c]}
    /\ Mark(c, {"volume"})
    /\ err' = [err EXCEPT ![c] = "ErrVolume"]
    /\ pc' = [pc EXCEPT ![c] = "createFailed"]
    /\ Fault
    /\ UNCHANGED <<pureVars, records, garden, locks, metricVars, cur, gardenContainer,
                   result, nDestroy, calls>>

\* Lines 371-373, 394-396, 419-421, 437-439, 451-453, 460-462, 491-493, 504-506:
\* a volume call of the mount plan returned an error; the volumes allocated
\* before it stay.
CreateVolumesErr(c) ==
    /\ pc[c] = "volumes"
    /\ \E allocated \in {{}, {"scratch"}, {"scratch", "io"}} :
          volumes' = volumes \cup {<<cur[c], m>> : m \in allocated}
    /\ Mark(c, {"volume"})
    /\ err' = [err EXCEPT ![c] = "ErrVolume"]
    /\ pc' = [pc EXCEPT ![c] = "createFailed"]
    /\ Fault
    /\ UNCHANGED <<pureVars, records, garden, locks, metricVars, cur, gardenContainer,
                   result, nDestroy, calls>>

\* The lock is released as soon as Create has made the container.
GardenCreateReleasingLock(c) ==
    /\ pc[c] = "gardenCreate"
    /\ cur[c] \notin garden
    /\ garden' = garden \cup {cur[c]}
    /\ gardenContainer' = [gardenContainer EXCEPT ![c] = TRUE]
    /\ containersCreated' = containersCreated + 1
    /\ Mark(c, {"create"})
    /\ pc' = [pc EXCEPT ![c] = "markCreated"]
    /\ locks' = [h \in Handles |-> IF locks[h] = c THEN 0 ELSE locks[h]]
    /\ UNCHANGED <<pureVars, faults, records, volumes, failedContainers, cur, err, result,
                   nDestroy, calls>>

\* Lines 545-553 and 256: p.gardenClient.Create(...) for a handle the runtime
\* does not hold yet, then metric.ContainersCreated.Inc().
GardenCreate(c) ==
    /\ pc[c] = "gardenCreate"
    /\ cur[c] \notin garden
    /\ garden' = garden \cup {cur[c]}
    /\ gardenContainer' = [gardenContainer EXCEPT ![c] = TRUE]
    /\ containersCreated' = containersCreated + 1
    /\ Mark(c, {"create"})
    /\ pc' = [pc EXCEPT ![c] = "markCreated"]
    /\ UNCHANGED <<pureVars, faults, records, volumes, locks, failedContainers, cur, err, result,
                   nDestroy, calls>>

\* Lines 545-553: Create for a handle the runtime already holds: garden refuses
\* a handle in use.
GardenCreateHandleTaken(c) ==
    /\ pc[c] = "gardenCreate"
    /\ cur[c] \in garden
    /\ Mark(c, {"create"})
    /\ err' = [err EXCEPT ![c] = "ErrGardenCreate"]
    /\ pc' = [pc EXCEPT ![c] = "createFailed"]
    /\ UNCHANGED <<pureVars, faults, records, garden, volumes, locks, metricVars, cur,
                   gardenContainer, result, nDestroy, calls>>

\* Lines 545-553: Create returned another error; no container was made.
GardenCreateErr(c) ==
    /\ pc[c] = "gardenCreate"
    /\ cur[c] \notin garden
    /\ Mark(c, {"create"})
    /\ err' = [err EXCEPT ![c] = "ErrGardenCreate"]
    /\ pc' = [pc EXCEPT ![c] = "createFailed"]
    /\ Fault
    /\ UNCHANGED <<pureVars, records, garden, volumes, locks, metricVars, cur,
                   gardenContainer, result, nDestroy, calls>>

\* Lines 245-254: creatingContainer.Failed(), metric.FailedContainers.Inc()
\* and the return of createGardenContainer's error.
FailedAfterCreate(c) ==
    /\ pc[c] = "createFailed"
    /\ records' = [records EXCEPT ![cur[c]] =
                      IF CanMarkFailed(cur[c]) THEN "failed" ELSE @]
    /\ failedContainers' = failedContainers + 1
    /\ Mark(c, {"failed"})
    /\ Return(c, err[c])
    /\ UNCHANGED <<pureVars, faults, garden, volumes, containersCreated, localVars, nDestroy, calls>>

\* The error of Failed() is returned in place of createGardenContainer's.
FailedAfterCreateErrMasking(c) ==
    /\ pc[c] = "createFailed"
    /\ failedContainers' = failedContainers + 1
    /\ Mark(c, {"failed"})
    /\ Return(c, "ErrFailed")
    /\ UNCHANGED <<pureVars, faults, records, garden, volumes, containersCreated, localVars,
                   nDestroy, calls>>

\* Lines 245-254 when Failed() itself returns an error (logged): the record
\* stays.
FailedAfterCreateErr(c) ==
    /\ pc[c] = "createFailed"
    /\ failedContainers' = failedContainers + 1
    /\ Mark(c, {"failed"})
    /\ Return(c, err[c])
    /\ UNCHANGED <<pureVars, faults, records, garden, volumes, containersCreated, localVars,
                   nDestroy, calls>>

\* The container is counted when the record becomes created, not when Create
\* returns.
CreatedCounting(c) ==
    /\ pc[c] = "markCreated"
    /\ CanMarkCreated(cur[c])
    /\ records' = [records EXCEPT ![cur[c]] = "created"]
    /\ containersCreated' = containersCreated + 1
    /\ Mark(c, {"created"})
    /\ pc' = [pc EXCEPT ![c] = "construct"]
    /\ UNCHANGED <<pureVars, faults, garden, volumes, locks, failedContainers, localVars, result,
                   nDestroy, calls>>

\* Line 263: creatingContainer.Created() applied the transition.
Created(c) ==
    /\ pc[c] = "markCreated"
    /\ CanMarkCreated(cur[c])
    /\ records' = [records EXCEPT ![cur[c]] = "created"]
    /\ Mark(c, {"created"})
    /\ pc' = [pc EXCEPT ![c] = "construct"]
    /\ UNCHANGED <<pureVars, faults, garden, volumes, locks, metricVars, localVars, result,
                   nDestroy, calls>>

\* Lines 263-265: Created() returned an error (always for a failed record); the
\* record stays as it is.
CreatedErr(c) ==
    /\ pc[c] = "markCreated"
    /\ IF CanMarkCreated(cur[c]) THEN Fault ELSE UNCHANGED faults
    /\ Mark(c, {"createdErr"})
    /\ err' = [err EXCEPT ![c] = "ErrCreated"]
    /\ pc' = [pc EXCEPT ![c] = "destroy"]
    /\ UNCHANGED <<pureVars, records, garden, volumes, locks, metricVars, cur,
                   gardenContainer, result, nDestroy, calls>>

\* The return of line 269 without the Destroy of line 267.
DestroySkipped(c) ==
    /\ pc[c] = "destroy"
    /\ Return(c, err[c])
    /\ UNCHANGED <<pureVars, faults, records, garden, volumes, metricVars, localVars, done, creationLog,
                   nDestroy, calls>>

\* Lines 267-269: p.gardenClient.Destroy(creatingContainer.Handle()) removed
\* the container; the error of Created() is returned.
Destroy(c) ==
    /\ pc[c] = "destroy"
    /\ garden' = garden \ {cur[c]}
    /\ nDestroy' = [nDestroy EXCEPT ![c] = @ + 1]
    /\ Mark(c, {"destroy"})
    /\ Return(c, err[c])
    /\ UNCHANGED <<pureVars, faults, records, volumes, metricVars, localVars, calls>>

\* Lines 267-269 when Destroy returns an error, which is dropped: the runtime
\* keeps what it holds and the error of Created() is returned.
DestroyErr(c) ==
    /\ pc[c] = "destroy"
    /\ nDestroy' = [nDestroy EXCEPT ![c] = @ + 1]
    /\ Mark(c, {"destroy"})
    /\ Return(c, err[c])
    /\ UNCHANGED <<pureVars, faults, records, garden, volumes, metricVars, localVars, calls>>

\* Line 174: p.gardenClient.Lookup(createdContainer.Handle()) found the
\* container.
LookupCreated(c) ==
    /\ pc[c] = "lookupCreated"
    /\ cur[c] \in garden
    /\ gardenContainer' = [gardenContainer EXCEPT ![c] = TRUE]
    /\ pc' = [pc EXCEPT ![c] = "construct"]
    /\ UNCHANGED <<pureVars, faults, records, garden, volumes, locks, metricVars, cur, err, result,
                   done, creationLog, nDestroy, calls>>

\* The runtime has no container for the created record and the call goes on
\* to the creation path.
LookupCreatedNotFoundFallingThrough(c) ==
    /\ pc[c] = "lookupCreated"
    /\ cur[c] \notin garden
    /\ Mark(c, {"lookupFailed"})
    /\ pc' = [pc EXCEPT ![c] = "acquire"]
    /\ UNCHANGED <<pureVars, faults, records, garden, volumes, locks, metricVars, localVars, result,
                   nDestroy, calls>>

\* Lines 174-178: the runtime has no container for the created record: Lookup's
\* ContainerNotFoundError is returned.
LookupCreatedNotFound(c) ==
    /\ pc[c] = "lookupCreated"
    /\ cur[c] \notin garden
    /\ Mark(c, {"lookupFailed"})
    /\ Return(c, "ErrContainerNotFound")
    /\ UNCHANGED <<pureVars, faults, records, garden, volumes, metricVars, localVars, nDestroy, calls>>

\* Lines 174-178: Lookup of the created record's handle returned another error.
LookupCreatedErr(c) ==
    /\ pc[c] = "lookupCreated"
    /\ Mark(c, {"lookupFailed"})
    /\ Return(c, "ErrLookup")
    /\ Fault
    /\ UNCHANGED <<pureVars, records, garden, volumes, metricVars, localVars, nDestroy, calls>>

\* Lines 330-350 (from 180 and 274): constructGardenWorkerContainer wraps the
\* record and the garden container.
ConstructGardenWorkerContainer(c) ==
    /\ pc[c] = "construct"
    /\ Return(c, "container")
    /\ UNCHANGED <<pureVars, faults, records, garden, volumes, metricVars, localVars, done, creationLog,
                   nDestroy, calls>>

\* Lines 335-339: FindVolumesForContainer returned an error.
ConstructGardenWorkerContainerErr(c) ==
    /\ pc[c] = "construct"
    /\ Return(c, "ErrFindVolumes")
    /\ Fault
    /\ UNCHANGED <<pureVars, records, garden, volumes, metricVars, localVars, done, creationLog,
                   nDestroy, calls>>

\* ------------------------------------------------------------ specifications

\* The steps in which every collaborator call succeeds (a lock held by another
\* caller and a handle in use are answers, not failures).
StepNoFail(c) ==
    \/ FindContainerOnWorker(c)
    \/ CreateContainer(c)
    \/ LookupCreating(c)
    \/ Acquire(c)
    \/ AcquireDenied(c)
    \/ FetchForContainer(c)
    \/ CreateVolumes(c)
    \/ GardenCreate(c)
    \/ GardenCreateHandleTaken(c)
    \/ FailedAfterCreate(c)
    \/ Created(c)
    \/ LookupCreated(c)
    \/ ConstructGardenWorkerContainer(c)

\* The steps in which a collaborator call fails.
StepFail(c) ==
    \/ GetImageErr(c)
    \/ FindContainerOnWorkerErr(c)
    \/ CreateContainerErr(c)
    \/ LookupCreatingErr(c)
    \/ AcquireErr(c)
    \/ FetchForContainerErr(c)
    \/ FailedAfterFetch(c)
    \/ FailedAfterFetchErr(c)
    \/ CreateVolumesErr(c)
    \/ GardenCreateErr(c)
    \/ FailedAfterCreateErr(c)
    \/ CreatedErr(c)
    \/ Destroy(c)
    \/ DestroyErr(c)
    \/ LookupCreatedNotFound(c)
    \/ LookupCreatedErr(c)
    \/ ConstructGardenWorkerContainerErr(c)

Next == \E c \in Callers : StepNoFail(c) \/ StepFail(c)

Spec == Init /\ [][Next]_vars

NextNoFail == \E c \in Callers : StepNoFail(c)

\* Concurrent callers polling with no collaborator failure, fairly scheduled.
SpecNoFail == Init /\ [][NextNoFail]_vars /\ \A c \in Callers : WF_vars(StepNoFail(c))

\* ------------------------------------------------------------------ claims

Returned(c) == pc[c] = "start" /\ result[c] # "none"

Fetchers == {e[1] : e \in {x \in creationLog : x[2] = "fetch"}}
Creators == {e[1] : e \in {x \in creationLog : x[2] = "create"}}

\* What a call does on the creation path.
CreationEffects == {"lock", "fetch", "volume", "create", "failed", "created",
                    "createdErr", "destroy"}

\* C1: with no collaborator failure, at most one caller ever fetches the image
\* and at most one caller ever invokes the runtime's Create for the owner.
C1_OneCallerCreates ==
    /\ Cardinality(Fetchers) <= 1
    /\ Cardinality(Creators) <= 1

\* C2: a record in the created state has a live runtime container with the
\* same handle.
C2_CreatedImpliesRuntime ==
    \A h \in Handles : records[h] = "created" => h \in garden

\* C3: the runtime never holds two containers of the owner, and Create is never
\* invoked for a handle the runtime already holds a container for.
C3_NoDuplicateCreate ==
    /\ [](Cardinality(garden) <= 1)
    /\ [][\A c \in Callers :
            ("create" \in done'[c] /\ "create" \notin done[c]) => cur[c] \notin garden]_vars

\* Some call has been handed the created record by FindContainerOnWorker.
ObservedCreated == \E c \in Callers : "foundCreated" \in done[c]

\* C4: once a caller has observed a created record, no caller acquires the
\* creating lock, fetches the image or invokes Create any more.
C4_NoCreationAfterObserved ==
    [][ObservedCreated =>
         \A c \in Callers :
            (done'[c] \cap {"lock", "fetch", "create"}) \subseteq done[c]]_vars

\* C5: with no collaborator failure, every poll ends with a container or the
\* deferred-retry result, and only one caller performs the creation.
C5_PollsConvergeOnOneCreation ==
    /\ \A c \in Callers : result[c] \notin Errors
    /\ Cardinality(Creators \cup Fetchers) <= 1

\* C6: a call that has returned holds no creating lock, on whichever path it
\* returned; the lock is only held inside the creation path.
C6_LockReleasedOnReturn ==
    \A c \in Callers : \A h \in Handles :
        locks[h] = c =>
            /\ pc[c] \in {"fetch", "fetchFailed", "volumes", "gardenCreate",
                          "createFailed", "markCreated", "destroy", "construct"}
            /\ "lock" \in done[c]
            /\ cur[c] = h

C6_Witness ==
    \E c \in Callers :
        /\ Returned(c)
        /\ "lock" \in done[c]
        /\ result[c] = "ErrCreated"
        /\ \E d \in Callers \ {c} : locks[cur[c]] = d

\* C7: a call whose lock acquisition was not granted returns the deferred-retry
\* result at once, having fetched nothing, allocated no volume, invoked neither
\* Create nor Destroy and marked the record neither failed nor created.
C7_DeferredRetryDoesNothing ==
    \A c \in Callers :
        "denied" \in done[c] =>
            /\ pc[c] = "start"
            /\ result[c] = "deferred"
            /\ done[c] \cap CreationEffects = {}
            /\ nDestroy[c] = 0

C7_Witness ==
    \E c \in Callers :
        /\ Returned(c)
        /\ "denied" \in done[c]
        /\ result[c] = "deferred"
        /\ records[cur[c]] = "creating"
        /\ cur[c] \notin garden

\* C8: a call that was handed a created record only looks the handle up and
\* wraps the container: it creates no record, takes no lock, fetches nothing,
\* allocates no volume, invokes neither Create nor a transition of the record,
\* and when the lookup succeeds it returns the container (or the error of
\* listing its volumes).
C8_FastPathFrame ==
    \A c \in Callers :
        "foundCreated" \in done[c] =>
            /\ done[c] \subseteq {"foundCreated", "lookupFailed"}
            /\ nDestroy[c] = 0
            /\ pc[c] \in {"lookupCreated", "construct", "start"}
            /\ \A h \in Handles : locks[h] # c
            /\ records[cur[c]] = "created"
            /\ (pc[c] = "start" /\ "lookupFailed" \notin done[c])
                  => result[c] \in {"container", "ErrFindVolumes"}

C8_Witness ==
    \E c \in Callers :
        /\ Returned(c)
        /\ "foundCreated" \in done[c]
        /\ result[c] = "container"

\* C9: when the runtime lookup of a created record's handle fails, the call
\* returns the lookup's error and no container; it does nothing of the creation
\* path and the record stays created.
C9_ReconciliationError ==
    \A c \in Callers :
        "lookupFailed" \in done[c] =>
            /\ pc[c] = "start"
            /\ result[c] \in {"ErrContainerNotFound", "ErrLookup"}
            /\ done[c] = {"foundCreated", "lookupFailed"}
            /\ nDestroy[c] = 0
            /\ records[cur[c]] = "created"

C9_Witness ==
    \E c \in Callers :
        /\ Returned(c)
        /\ "lookupFailed" \in done[c]
        /\ result[c] = "ErrContainerNotFound"
        /\ cur[c] \notin garden

\* C10: a call whose Created() returned an error invokes Destroy exactly once
\* and returns the error of Created() and no container, whatever Destroy
\* answers.
C10_DestroyOnCreatedError ==
    \A c \in Callers :
        "createdErr" \in done[c] =>
            /\ pc[c] \in {"destroy", "start"}
            /\ "created" \notin done[c]
            /\ pc[c] = "destroy" => nDestroy[c] = 0
            /\ pc[c] = "start" => (nDestroy[c] = 1 /\ result[c] = "ErrCreated")

C10_Witness ==
    \E c \in Callers :
        /\ Returned(c)
        /\ "createdErr" \in done[c]
        /\ nDestroy[c] = 1
        /\ result[c] = "ErrCreated"
        /\ "create" \in done[c]
        /\ cur[c] \notin garden

\* C11: the step that ends a call after the mount plan or the runtime Create
\* failed invokes Failed(), adds exactly one to the failed-containers counter,
\* does not make the record created, and returns createGardenContainer's error
\* whatever Failed() answers; nothing else moves that counter.
C11_CreateFailureMarksFailed ==
    /\ [][\A c \in Callers :
            (pc[c] = "createFailed" /\ pc'[c] # "createFailed") =>
                /\ pc'[c] = "start"
                /\ err[c] \in {"ErrVolume", "ErrGardenCreate"}
                /\ result'[c] = err[c]
                /\ "failed" \in done'[c]
                /\ "created" \notin done'[c]
                /\ failedContainers' = failedContainers + 1
                /\ records'[cur[c]] \in {"failed", records[cur[c]]}
          ]_vars
    /\ [][failedContainers' # failedContainers =>
            \E c \in Callers : pc[c] = "createFailed" /\ pc'[c] = "start"]_vars

C11_Witness ==
    \E c \in Callers :
        /\ Returned(c)
        /\ result[c] = "ErrGardenCreate"
        /\ "failed" \in done[c]
        /\ records[cur[c]] = "creating"
        /\ failedContainers = 1

\* C12: a created record stays created and a failed record stays failed,
\* whichever caller attempts the other transition afterwards.
C12_OneTerminalState ==
    [][\A h \in Handles :
          /\ records[h] = "created" => records'[h] = "created"
          /\ records[h] = "failed" => records'[h] = "failed"]_vars

C12_Witness ==
    \E c \in Callers :
        /\ Returned(c)
        /\ "failed" \in done[c]
        /\ records[cur[c]] = "created"

LiveRecords == {h \in Handles : records[h] \in {"creating", "created"}}

\* C13: the owner never has two records that are creating or created, and
\* callers that each called CreateContainer hold the same record while it lives.
C13_OneLiveRecord ==
    /\ Cardinality(LiveRecords) <= 1
    /\ \A c, d \in Callers :
          (cur[c] \in LiveRecords /\ cur[d] \in LiveRecords) => cur[c] = cur[d]

C13_Witness ==
    \E c, d \in Callers :
        /\ c # d
        /\ "record" \in done[c] /\ "record" \in done[d]
        /\ pc[c] \notin {"start", "createInDb"}
        /\ pc[d] \notin {"start", "createInDb"}
        /\ cur[c] = cur[d]
        /\ records[cur[c]] = "creating"

\* C14: every container of the runtime has the handle of a record that is
\* creating or created.
C14_RuntimeHandlesAreLiveRecords == garden \subseteq LiveRecords

\* C15: no step removes a volume, and the runtime only loses a container in the
\* Destroy of a call whose Created() returned an error.
C15_NothingDeletedButOnCreatedError ==
    /\ [][volumes \subseteq volumes']_vars
    /\ [][garden \subseteq garden' \/
            \E c \in Callers :
                /\ pc[c] = "destroy"
                /\ "createdErr" \in done[c]
                /\ garden' = garden \ {cur[c]}]_vars
    /\ [](\A c \in Callers : nDestroy[c] > 0 => "createdErr" \in done[c])

C15_Witness ==
    \E c \in Callers :
        /\ Returned(c)
        /\ result[c] = "ErrVolume"
        /\ <<cur[c], "scratch">> \in volumes
        /\ <<cur[c], "io">> \notin volumes
        /\ cur[c] \notin garden

\* =========================================================================
\* The mount plan of containerProvider.createGardenContainer (lines 352-554),
\* studied on its own: one run for a container that has no volume yet.
\* =========================================================================

MaxInputs == 2
MaxOutputs == 2
MaxBindMounts == 1

\* Destination paths as the spec gives them (before filepath.Clean).
InputDestinations == {"/data/", "/scratch"}
OutputDestinations == {"/data", "/out", "/out/"}
Dirs == {"", "/scratch", "/data", "/work"}
BindMountPaths == {"/certs"}

SeqsUpTo(S, n) == UNION {[1..k -> S] : k \in 0..n}

\* spec.Inputs is an ordered list; found is what Source().VolumeOn answers.
\* spec.Outputs is a Go map (its iteration order is not fixed), spec.BindMounts
\* a list whose VolumeOn finds the mount on the worker or not.
ContainerSpecs ==
    [inputs : SeqsUpTo([dest : InputDestinations, found : BOOLEAN], MaxInputs),
     outputs : {o \in SUBSET OutputDestinations : Cardinality(o) <= MaxOutputs},
     dir : Dirs,
     bindMounts : SeqsUpTo([path : BindMountPaths, found : BOOLEAN], MaxBindMounts)]

\* The orders in which a range over the outputs map can enumerate it.
Enumerations(S) ==
    {e \in [1..Cardinality(S) -> S] : \A i, j \in DOMAIN e : i # j => e[i] # e[j]}

\* filepath.Clean on the paths of the model.
Clean(p) ==
    CASE p = "" -> "."
      [] p = "/data/" -> "/data"
      [] p = "/out/" -> "/out"
      [] OTHER -> p

\* The cleaned paths in ascending (byte) order, as byMountPath compares them.
PathOrder == <<".", "/certs", "/data", "/out", "/scratch", "/work">>
Rank(p) == CHOOSE i \in DOMAIN PathOrder : PathOrder[i] = p

\* Lines 556-578: getDestinationPathsFromInputs, getDestinationPathsFromOutputs.
getDestinationPathsFromInputs(inputs) == {inputs[i].dest : i \in DOMAIN inputs}
getDestinationPathsFromOutputs(outputs) == outputs

\* The paths are compared as given, without filepath.Clean.
anyMountToUncleaned(path, destinationPaths) ==
    \E d \in destinationPaths : d = path

\* Lines 580-588.
anyMountTo(path, destinationPaths) ==
    \E d \in destinationPaths : Clean(d) = Clean(path)

Call(op, by, idx, path) == [op |-> op, by |-> by, idx |-> idx, path |-> path]

\* Lines 361-378: the scratch volume.
ScratchCalls == <<Call("FindOrCreateVolumeForContainer", "scratch", 0, "/scratch")>>

\* Lines 380-383.
NeedsWorkdirVolume(spec) ==
    /\ spec.dir # ""
    /\ ~anyMountTo(spec.dir, getDestinationPathsFromOutputs(spec.outputs))
    /\ ~anyMountTo(spec.dir, getDestinationPathsFromInputs(spec.inputs))

\* Lines 383-402: the working directory's volume, mounted at spec.Dir as given.
WorkdirCalls(spec) ==
    IF NeedsWorkdirVolume(spec)
    THEN <<Call("FindOrCreateVolumeForContainer", "workdir", 0, spec.dir)>>
    ELSE <<>>

\* The source is streamed into the input's volume in both cases.
InputCallsOfAlwaysStreaming(input, i) ==
    <<Call("VolumeOn", "input", i, Clean(input.dest))>> \o
    (IF input.found
     THEN <<Call("FindOrCreateCOWVolumeForContainer", "input", i, Clean(input.dest)),
            Call("StreamTo", "input", i, Clean(input.dest))>>
     ELSE <<Call("FindOrCreateVolumeForContainer", "input", i, Clean(input.dest)),
            Call("StreamTo", "input", i, Clean(input.dest))>>)

\* Lines 415-471, one input: VolumeOn, then a copy-on-write volume of the
\* resident one, or an empty volume and the stream of the source into it.
InputCallsOf(input, i) ==
    <<Call("VolumeOn", "input", i, Clean(input.dest))>> \o
    (IF input.found
     THEN <<Call("FindOrCreateCOWVolumeForContainer", "input", i, Clean(input.dest))>>
     ELSE <<Call("FindOrCreateVolumeForContainer", "input", i, Clean(input.dest)),
            Call("StreamTo", "input", i, Clean(input.dest))>>)

RECURSIVE InputCalls(_, _)
InputCalls(inputs, i) ==
    IF i > Len(inputs) THEN <<>>
    ELSE InputCallsOf(inputs[i], i) \o InputCalls(inputs, i + 1)

\* Lines 413, 470.
inputDestinationPaths(inputs) == {Clean(inputs[i].dest) : i \in DOMAIN inputs}

\* Lines 473-499, one output: nothing when an input claimed its cleaned path.
OutputCallsOf(outputPath, i, claimed) ==
    IF Clean(outputPath) \in claimed
    THEN <<>>
    ELSE <<Call("FindOrCreateVolumeForContainer", "output", i, Clean(outputPath))>>

RECURSIVE OutputCalls(_, _, _)
OutputCalls(enum, claimed, i) ==
    IF i > Len(enum) THEN <<>>
    ELSE OutputCallsOf(enum[i], i, claimed) \o OutputCalls(enum, claimed, i + 1)

\* Lines 502-510: VolumeOn of every extra bind mount.
RECURSIVE BindMountCalls(_, _)
BindMountCalls(binds, i) ==
    IF i > Len(binds) THEN <<>>
    ELSE <<Call("BindMountVolumeOn", "bind", i, binds[i].path)>>
            \o BindMountCalls(binds, i + 1)

\* Lines 361-510: the collaborator calls of the mount plan, in the order the
\* code makes them, for one enumeration of the outputs.
PlanCalls(spec, enum) ==
    ScratchCalls \o WorkdirCalls(spec) \o InputCalls(spec.inputs, 1)
        \o OutputCalls(enum, inputDestinationPaths(spec.inputs), 1)
        \o BindMountCalls(spec.bindMounts, 1)

IsAllocation(call) ==
    call.op \in {"FindOrCreateVolumeForContainer", "FindOrCreateCOWVolumeForContainer"}

\* A VolumeMount: the volume the call returned (the volume client keeps one
\* volume per container and mount path) and where it is mounted.
VolumeMountOf(call) ==
    [by |-> call.by, idx |-> call.idx, volume |-> call.path, mountPath |-> call.path]

IsHeadAllocation(call) == IsAllocation(call) /\ call.by \in {"scratch", "workdir"}
IsIOAllocation(call) == IsAllocation(call) /\ call.by \in {"input", "output"}

MapToMounts(planCalls) == [i \in DOMAIN planCalls |-> VolumeMountOf(planCalls[i])]

\* The mounts are left in the order they were appended.
SortByMountPathNotSorting(mounts) == mounts

\* m goes after the mounts whose path is not greater (equal paths are mounts of
\* the same volume at the same place).
RECURSIVE InsertByMountPath(_, _)
InsertByMountPath(m, sorted) ==
    IF sorted = <<>> THEN <<m>>
    ELSE IF Rank(Head(sorted).mountPath) <= Rank(m.mountPath)
         THEN <<Head(sorted)>> \o InsertByMountPath(m, Tail(sorted))
         ELSE <<m>> \o sorted

RECURSIVE SortFrom(_, _)
SortFrom(mounts, i) ==
    IF i = 0 THEN <<>>
    ELSE InsertByMountPath(mounts[i], SortFrom(mounts, i - 1))

\* Line 512: sort.Sort(byMountPath(ioVolumeMounts)).
SortByMountPath(mounts) == SortFrom(mounts, Len(mounts))

\* Lines 375-378, 398-401, 465-468, 495-498, 512-513: scratch and working
\* directory first, then the sorted mounts of the inputs and outputs.
VolumeMounts(spec, enum) ==
    LET planCalls == PlanCalls(spec, enum) IN
        MapToMounts(SelectSeq(planCalls, IsHeadAllocation))
            \o SortByMountPath(MapToMounts(SelectSeq(planCalls, IsIOAllocation)))

IsFound(b) == b.found

\* Lines 500-510: the extra bind mounts that the worker has.
ExtraBindMounts(spec) ==
    LET found == SelectSeq(spec.bindMounts, IsFound) IN
        [i \in DOMAIN found |->
            [src |-> <<"worker", found[i].path>>, dst |-> found[i].path,
             mode |-> "asGiven"]]

\* Lines 500-521: garden.ContainerSpec.BindMounts.
GardenBindMounts(spec, enum) ==
    LET mounts == VolumeMounts(spec, enum) IN
        ExtraBindMounts(spec) \o
        [i \in DOMAIN mounts |->
            [src |-> <<"volume", mounts[i].volume>>, dst |-> mounts[i].mountPath,
             mode |-> "RW"]]

NoPlan == [status |-> "idle"]

\* The mount plan's error is dropped and Create is invoked all the same.
createGardenContainerPlanErrIgnored(enum, k) ==
    /\ plan.status = "idle"
    /\ k \in 1..Len(PlanCalls(containerSpec, enum))
    /\ plan' = [status |-> "created", enum |-> enum,
                calls |-> PlanCalls(containerSpec, enum), failedCall |-> k,
                createInvoked |-> TRUE,
                volumeMounts |-> VolumeMounts(containerSpec, enum),
                bindMounts |-> GardenBindMounts(containerSpec, enum)]
    /\ UNCHANGED <<provisionerVars, lookupVars, shiftVars, containerSpec, matcherVars, versionVars, resolveVars>>

\* Lines 371-373, 394-396, 419-421, 437-439, 451-453, 460-462, 491-493,
\* 504-506: the k-th call of the mount plan returns an error and
\* createGardenContainer returns it.
createGardenContainerPlanErr(enum, k) ==
    /\ plan.status = "idle"
    /\ k \in 1..Len(PlanCalls(containerSpec, enum))
    /\ plan' = [status |-> "failed", enum |-> enum,
                calls |-> SubSeq(PlanCalls(containerSpec, enum), 1, k),
                failedCall |-> k, createInvoked |-> FALSE,
                volumeMounts |-> <<>>, bindMounts |-> <<>>]
    /\ UNCHANGED <<provisionerVars, lookupVars, shiftVars, containerSpec, matcherVars, versionVars, resolveVars>>

\* Lines 361-553: every call of the mount plan succeeds and gardenClient.Create
\* is given the bind mounts; it makes the container.
createGardenContainer(enum) ==
    /\ plan.status = "idle"
    /\ plan' = [status |-> "created", enum |-> enum,
                calls |-> PlanCalls(containerSpec, enum), failedCall |-> 0,
                createInvoked |-> TRUE,
                volumeMounts |-> VolumeMounts(containerSpec, enum),
                bindMounts |-> GardenBindMounts(containerSpec, enum)]
    /\ UNCHANGED <<provisionerVars, lookupVars, shiftVars, containerSpec, matcherVars, versionVars, resolveVars>>

\* Lines 545-553: the mount plan succeeds and gardenClient.Create returns an
\* error.
createGardenContainerCreateErr(enum) ==
    /\ plan.status = "idle"
    /\ plan' = [status |-> "failed", enum |-> enum,
                calls |-> PlanCalls(containerSpec, enum), failedCall |-> 0,
                createInvoked |-> TRUE,
                volumeMounts |-> VolumeMounts(containerSpec, enum),
                bindMounts |-> GardenBindMounts(containerSpec, enum)]
    /\ UNCHANGED <<provisionerVars, lookupVars, shiftVars, containerSpec, matcherVars, versionVars, resolveVars>>

InitMounts ==
    /\ ProvisionerInit
    /\ LookupIdle
    /\ ShiftIdle
    /\ MatcherIdle
    /\ VersionIdle
    /\ ResolveIdle
    /\ containerSpec \in ContainerSpecs
    /\ plan = NoPlan

NextMounts ==
    \/ \E enum \in Enumerations(containerSpec.outputs) : createGardenContainer(enum)
    \/ \E enum \in Enumerations(containerSpec.outputs) :
          \E k \in DOMAIN PlanCalls(containerSpec, enum) :
              createGardenContainerPlanErr(enum, k)
    \/ \E enum \in Enumerations(containerSpec.outputs) :
          createGardenContainerCreateErr(enum)

SpecMounts == InitMounts /\ [][NextMounts]_vars

\* ---- Claims about the mount plan (SpecMounts) ----

DestinationsOf(bindMounts, path) ==
    {i \in DOMAIN bindMounts : bindMounts[i].dst = path}

\* C16: whatever the spec, the bind mounts given to gardenClient.Create have
\* pairwise different destination paths.
C16_UniqueDestinations ==
    (plan.status # "idle" /\ plan.createInvoked) =>
        \A i, j \in DOMAIN plan.bindMounts :
            i # j => plan.bindMounts[i].dst # plan.bindMounts[j].dst

\* C17: an output whose cleaned destination is the cleaned destination of an
\* input gets no volume of its own, and there is exactly one mount at that
\* path, the mount of the input's volume.
C17_MountDedup ==
    plan.status = "created" =>
        \A o \in containerSpec.outputs :
            (\E i \in DOMAIN containerSpec.inputs :
                    Clean(containerSpec.inputs[i].dest) = Clean(o)) =>
                /\ ~\E k \in DOMAIN plan.calls :
                        /\ plan.calls[k].by = "output"
                        /\ plan.enum[plan.calls[k].idx] = o
                /\ Cardinality(DestinationsOf(plan.bindMounts, Clean(o))) = 1
                /\ \A m \in DOMAIN plan.volumeMounts :
                        plan.volumeMounts[m].mountPath = Clean(o) =>
                            plan.volumeMounts[m].by = "input"

WorkdirAllocated ==
    \E k \in DOMAIN plan.calls : plan.calls[k].by = "workdir"

\* From position n + 1 on: the scratch mount, the working directory's mount if
\* a volume was allocated for it, then mounts of input and output volumes in
\* ascending order of destination path.
MountOrderAfter(n) ==
    LET bm == plan.bindMounts
        w == IF WorkdirAllocated THEN 1 ELSE 0
    IN  /\ Len(bm) >= n + 1 + w
        /\ bm[n + 1] = [src |-> <<"volume", "/scratch">>, dst |-> "/scratch",
                        mode |-> "RW"]
        /\ w = 1 => bm[n + 2] = [src |-> <<"volume", containerSpec.dir>>,
                                 dst |-> containerSpec.dir, mode |-> "RW"]
        /\ \A i \in (n + 2 + w)..Len(bm) :
              /\ bm[i].src[1] = "volume"
              /\ \E k \in DOMAIN plan.calls :
                    /\ IsIOAllocation(plan.calls[k])
                    /\ plan.calls[k].path = bm[i].dst
              /\ \A j \in (i + 1)..Len(bm) : Rank(bm[i].dst) <= Rank(bm[j].dst)

SameForEveryEnumeration ==
    \A e \in Enumerations(containerSpec.outputs) :
        GardenBindMounts(containerSpec, e) = plan.bindMounts

\* C18 as stated: the list given to gardenClient.Create starts with the scratch
\* mount, then the working directory's, then the sorted input/output mounts,
\* whatever the enumeration order of the outputs.
C18_ScratchMountFirst ==
    plan.status = "created" => MountOrderAfter(0) /\ SameForEveryEnumeration

\* C18, amended: the extra bind mounts of the spec that the worker has come
\* first, in the spec's order; after them the scratch mount, then the working
\* directory's mount if allocated, then the input/output mounts in ascending
\* order of destination path; the list is the same for every enumeration order
\* of the outputs.
C18_DeterministicMounts ==
    plan.status = "created" =>
        LET found == SelectSeq(containerSpec.bindMounts, IsFound) IN
            /\ Len(plan.bindMounts) >= Len(found)
            /\ \A i \in DOMAIN found :
                  /\ plan.bindMounts[i].src = <<"worker", found[i].path>>
                  /\ plan.bindMounts[i].dst = found[i].path
            /\ MountOrderAfter(Len(found))
            /\ SameForEveryEnumeration

C18_Witness ==
    /\ plan.status = "created"
    /\ containerSpec.inputs = <<>>
    /\ plan.enum = <<"/out", "/data">>
    /\ WorkdirAllocated
    /\ Len(plan.bindMounts) = 5
    /\ plan.bindMounts[1].src[1] = "worker"
    /\ plan.bindMounts[4].dst = "/data"
    /\ plan.bindMounts[5].dst = "/out"

\* C19: when a call of the mount plan (a volume allocation, a VolumeOn lookup,
\* a StreamTo) returns an error, no later call is made, gardenClient.Create is
\* not invoked, and createGardenContainer ends with the error and no container.
C19_PlanFailurePolicy ==
    (plan.status # "idle" /\ plan.failedCall > 0) =>
        /\ plan.status = "failed"
        /\ ~plan.createInvoked
        /\ plan.bindMounts = <<>>
        /\ Len(plan.calls) = plan.failedCall

C19_Witness ==
    /\ plan.status = "failed"
    /\ plan.failedCall > 2
    /\ plan.calls[plan.failedCall].op = "StreamTo"
    /\ ~plan.createInvoked

\* =========================================================================
\* The compatibility matcher gardenWorker.Satisfying (lines 807-897).
\* =========================================================================

MaxResourceTypes == 2
MaxTags == 2

Teams == {1}
WorkerTeams == {0, 1, 2}
Platforms == {"linux", "darwin"}
Tags == {"gpu", "fast"}
BaseTypes == {"git", "b"}

\* creds.VersionedResourceTypes: which type each custom type is built from.
VersionedResourceTypes ==
    {[name |-> "a", type |-> "b"], [name |-> "b", type |-> "a"],
     [name |-> "a", type |-> "a"], [name |-> "b", type |-> "git"]}

TagSets == {t \in SUBSET Tags : Cardinality(t) <= MaxTags}

\* What Satisfying reads of the worker: dbWorker.TeamID(), the Type of each
\* of dbWorker.ResourceTypes(), dbWorker.Platform(), dbWorker.Tags().
Workers ==
    [teamID : WorkerTeams, resourceTypes : SUBSET BaseTypes,
     platform : Platforms, tags : TagSets]

WorkerSpecs ==
    [teamID : Teams, resourceType : {"", "git", "a"},
     resourceTypes : SeqsUpTo(VersionedResourceTypes, MaxResourceTypes),
     platform : {"", "linux"}, tags : TagSets]

\* Lines 607-611.
SelectionErrors ==
    {"ErrTeamMismatch", "ErrUnsupportedResourceType", "ErrIncompatiblePlatform",
     "ErrMismatchedTags"}

\* Lines 845-848: a later entry of a name replaces an earlier one.
resourceTypesMap(resourceTypes) ==
    [n \in {resourceTypes[i].name : i \in DOMAIN resourceTypes} |->
        resourceTypes[CHOOSE i \in DOMAIN resourceTypes :
                        /\ resourceTypes[i].name = n
                        /\ \A j \in DOMAIN resourceTypes :
                              j > i => resourceTypes[j].name # n].type]

\* Lines 851-855, entered with ok true: the name becomes the Type of the entry
\* found last, that name is looked up and then deleted from the map.
RECURSIVE underlyingTypeLoop(_, _)
underlyingTypeLoop(underlyingType, typesMap) ==
    IF underlyingType \in DOMAIN typesMap
    THEN underlyingTypeLoop(typesMap[underlyingType],
                            [n \in DOMAIN typesMap \ {underlyingType} |-> typesMap[n]])
    ELSE underlyingType

\* The base of the named type is taken without following the chain further.
determineUnderlyingTypeNameOneStep(typeName, resourceTypes) ==
    LET typesMap == resourceTypesMap(resourceTypes) IN
        IF typeName \in DOMAIN typesMap THEN typesMap[typeName] ELSE typeName

\* Lines 844-857.
determineUnderlyingTypeName(typeName, resourceTypes) ==
    LET typesMap == resourceTypesMap(resourceTypes) IN
        IF typeName \in DOMAIN typesMap
        THEN underlyingTypeLoop(typesMap[typeName], typesMap)
        ELSE typeName

\* A worker without tags matches whatever tags are asked for.
tagsMatchUntaggedAcceptsAll(w, tags) ==
    IF w.tags = {}
    THEN TRUE
    ELSE IF tags = {}
    THEN FALSE
    ELSE \A stag \in tags : \E wtag \in w.tags : stag = wtag

\* Lines 885-896 alone, without the test of lines 881-883.
tagsMatchWithoutEmptyCheck(w, tags) ==
    \A stag \in tags : \E wtag \in w.tags : stag = wtag

\* Lines 879-897.
tagsMatch(w, tags) ==
    IF w.tags # {} /\ tags = {}
    THEN FALSE
    ELSE \A stag \in tags : \E wtag \in w.tags : stag = wtag

Rejected(e) == [status |-> "done", worker |-> FALSE, err |-> e]

\* The platform of the worker is not compared.
SatisfyingIgnoringPlatform(w, spec) ==
    IF spec.teamID # w.teamID /\ w.teamID # 0
    THEN Rejected("ErrTeamMismatch")
    ELSE IF /\ spec.resourceType # ""
            /\ determineUnderlyingTypeName(spec.resourceType, spec.resourceTypes)
                    \notin w.resourceTypes
    THEN Rejected("ErrUnsupportedResourceType")
    ELSE IF ~tagsMatch(w, spec.tags)
    THEN Rejected("ErrMismatchedTags")
    ELSE [status |-> "done", worker |-> TRUE, err |-> "nil"]

\* A worker of team 0 is treated as any other: its team must be the spec's.
SatisfyingRejectingSharedWorkers(w, spec) ==
    IF spec.teamID # w.teamID
    THEN Rejected("ErrTeamMismatch")
    ELSE IF /\ spec.resourceType # ""
            /\ determineUnderlyingTypeName(spec.resourceType, spec.resourceTypes)
                    \notin w.resourceTypes
    THEN Rejected("ErrUnsupportedResourceType")
    ELSE IF spec.platform # "" /\ spec.platform # w.platform
    THEN Rejected("ErrIncompatiblePlatform")
    ELSE IF ~tagsMatch(w, spec.tags)
    THEN Rejected("ErrMismatchedTags")
    ELSE [status |-> "done", worker |-> TRUE, err |-> "nil"]

\* The platform is compared before the resource type.
SatisfyingPlatformFirst(w, spec) ==
    IF spec.teamID # w.teamID /\ w.teamID # 0
    THEN Rejected("ErrTeamMismatch")
    ELSE IF spec.platform # "" /\ spec.platform # w.platform
    THEN Rejected("ErrIncompatiblePlatform")
    ELSE IF /\ spec.resourceType # ""
            /\ determineUnderlyingTypeName(spec.resourceType, spec.resourceTypes)
                    \notin w.resourceTypes
    THEN Rejected("ErrUnsupportedResourceType")
    ELSE IF ~tagsMatch(w, spec.tags)
    THEN Rejected("ErrMismatchedTags")
    ELSE [status |-> "done", worker |-> TRUE, err |-> "nil"]

\* Lines 807-842: the (Worker, error) pair; worker tells whether the worker is
\* the first component (otherwise nil).
Satisfying(w, spec) ==
    IF spec.teamID # w.teamID /\ w.teamID # 0
    THEN Rejected("ErrTeamMismatch")
    ELSE IF /\ spec.resourceType # ""
            /\ determineUnderlyingTypeName(spec.resourceType, spec.resourceTypes)
                    \notin w.resourceTypes
    THEN Rejected("ErrUnsupportedResourceType")
    ELSE IF spec.platform # "" /\ spec.platform # w.platform
    THEN Rejected("ErrIncompatiblePlatform")
    ELSE IF ~tagsMatch(w, spec.tags)
    THEN Rejected("ErrMismatchedTags")
    ELSE [status |-> "done", worker |-> TRUE, err |-> "nil"]

\* One call of worker.Satisfying(logger, spec).
CallSatisfying ==
    /\ satisfying.status = "idle"
    /\ satisfying' = Satisfying(worker, workerSpec)
    /\ UNCHANGED <<provisionerVars, lookupVars, shiftVars, mountVars, worker, workerSpec, versionVars,
                   resolveVars>>

InitMatcher ==
    /\ ProvisionerInit
    /\ LookupIdle
    /\ ShiftIdle
    /\ MountsIdle
    /\ VersionIdle
    /\ ResolveIdle
    /\ worker \in Workers
    /\ workerSpec \in WorkerSpecs
    /\ satisfying = [status |-> "idle"]

NextMatcher == CallSatisfying

SpecMatcher == InitMatcher /\ [][NextMatcher]_vars

\* ---- Claims about the matcher (SpecMatcher) ----

\* The four rules of the matcher, each violated or not by (worker, workerSpec).
TeamRuleViolated ==
    workerSpec.teamID # worker.teamID /\ worker.teamID # 0

ResourceTypeRuleViolated ==
    /\ workerSpec.resourceType # ""
    /\ ~\E t \in worker.resourceTypes :
          t = determineUnderlyingTypeName(workerSpec.resourceType,
                                          workerSpec.resourceTypes)

PlatformRuleViolated ==
    workerSpec.platform # "" /\ workerSpec.platform # worker.platform

TagRuleViolated ==
    worker.tags # {} /\ ~(workerSpec.tags \subseteq worker.tags)

\* C20: Satisfying returns the worker and no error, or no worker and exactly
\* one of the four selection errors; it does not return the worker when the
\* team, resource type, platform or tag rule is violated.
C20_MatcherTotality ==
    satisfying.status = "done" =>
        /\ \/ satisfying.worker /\ satisfying.err = "nil"
           \/ ~satisfying.worker /\ satisfying.err \in SelectionErrors
        /\ satisfying.worker =>
              /\ ~TeamRuleViolated
              /\ ~ResourceTypeRuleViolated
              /\ ~PlatformRuleViolated
              /\ ~TagRuleViolated

C20_Witness ==
    /\ satisfying.status = "done"
    /\ satisfying.worker
    /\ worker.teamID = 1
    /\ workerSpec.resourceType = "a"
    /\ Len(workerSpec.resourceTypes) = 2
    /\ workerSpec.platform = "linux"
    /\ workerSpec.tags = {"gpu"}

\* C21: a worker without tags is returned for every spec that passes the team,
\* resource type and platform rules, whatever tags the spec asks for.
C21_UntaggedWorkerAcceptsAnyTags ==
    (/\ satisfying.status = "done"
     /\ worker.tags = {}
     /\ ~TeamRuleViolated
     /\ ~ResourceTypeRuleViolated
     /\ ~PlatformRuleViolated) =>
        satisfying.worker /\ satisfying.err = "nil"

\* C21, amended: a worker without tags is returned for a spec that passes the
\* team, resource type and platform rules exactly when the spec asks for no
\* tag; when it asks for one, ErrMismatchedTags is returned.
C21_UntaggedWorkerAcceptsNoTags ==
    (/\ satisfying.status = "done"
     /\ worker.tags = {}
     /\ ~TeamRuleViolated
     /\ ~ResourceTypeRuleViolated
     /\ ~PlatformRuleViolated) =>
        /\ workerSpec.tags = {} => satisfying.worker /\ satisfying.err = "nil"
        /\ workerSpec.tags # {} =>
              ~satisfying.worker /\ satisfying.err = "ErrMismatchedTags"

C21_Witness ==
    /\ satisfying.status = "done"
    /\ worker.tags = {}
    /\ workerSpec.tags = {"gpu"}
    /\ workerSpec.resourceType = "git"
    /\ workerSpec.platform = "linux"
    /\ satisfying.err = "ErrMismatchedTags"

\* C22: for a worker with at least one tag, once the team, resource type and
\* platform rules pass, the worker is returned exactly when the spec's tags are
\* a subset of the worker's, and ErrMismatchedTags is returned otherwise.
C22_TaggedWorkerSubsetMatch ==
    (/\ satisfying.status = "done"
     /\ worker.tags # {}
     /\ ~TeamRuleViolated
     /\ ~ResourceTypeRuleViolated
     /\ ~PlatformRuleViolated) =>
        /\ workerSpec.tags \subseteq worker.tags =>
              satisfying.worker /\ satisfying.err = "nil"
        /\ ~(workerSpec.tags \subseteq worker.tags) =>
              ~satisfying.worker /\ satisfying.err = "ErrMismatchedTags"

\* C22, amended: for a worker with at least one tag, once the team, resource
\* type and platform rules pass, the worker is returned exactly when the spec
\* asks for at least one tag and all its tags are tags of the worker;
\* otherwise (no tag asked for, or one the worker lacks) ErrMismatchedTags is
\* returned.
C22_TaggedWorkerNonEmptySubsetMatch ==
    (/\ satisfying.status = "done"
     /\ worker.tags # {}
     /\ ~TeamRuleViolated
     /\ ~ResourceTypeRuleViolated
     /\ ~PlatformRuleViolated) =>
        IF workerSpec.tags # {} /\ workerSpec.tags \subseteq worker.tags
        THEN satisfying.worker /\ satisfying.err = "nil"
        ELSE ~satisfying.worker /\ satisfying.err = "ErrMismatchedTags"

C22_Witness ==
    /\ satisfying.status = "done"
    /\ worker.tags = {"gpu"}
    /\ workerSpec.tags = {}
    /\ workerSpec.resourceType = "git"
    /\ satisfying.err = "ErrMismatchedTags"

\* C23: ErrTeamMismatch is returned exactly when the spec's team differs from
\* the worker's and the worker's team is not 0; a worker of team 0 is never
\* rejected for its team, and a worker owned by a team is never returned for a
\* spec of another team.
C23_TeamRule ==
    satisfying.status = "done" =>
        /\ satisfying.err = "ErrTeamMismatch" <=>
              (workerSpec.teamID # worker.teamID /\ worker.teamID # 0)
        /\ worker.teamID = 0 => satisfying.err # "ErrTeamMismatch"
        /\ (worker.teamID # 0 /\ worker.teamID # workerSpec.teamID) =>
              ~satisfying.worker

C23_Witness ==
    /\ satisfying.status = "done"
    /\ worker.teamID = 0
    /\ workerSpec.teamID = 1
    /\ satisfying.worker

\* The names met from name on by taking the base of an entry at most n times:
\* name, the base of its entry, the base of that one's entry, ...
RECURSIVE ChainFrom(_, _, _)
ChainFrom(name, typesMap, n) ==
    IF n = 0 \/ name \notin DOMAIN typesMap
    THEN <<name>>
    ELSE <<name>> \o ChainFrom(typesMap[name], typesMap, n - 1)

\* C24: a spec without resource type is never rejected for it; for a spec with
\* one, the resolved name is the end of the chain of bases when the chain
\* leaves the catalog, it is the name itself when the name's entry is built
\* from itself, and (the team rule passing) ErrUnsupportedResourceType is
\* returned exactly when no resource type of the worker has the resolved name
\* as its Type.
C24_ResourceTypeRule ==
    satisfying.status = "done" =>
        LET name == workerSpec.resourceType
            typesMap == resourceTypesMap(workerSpec.resourceTypes)
            resolved == determineUnderlyingTypeName(name, workerSpec.resourceTypes)
            chain == ChainFrom(name, typesMap, Cardinality(DOMAIN typesMap))
        IN  /\ name = "" => satisfying.err # "ErrUnsupportedResourceType"
            /\ name # "" =>
                  /\ chain[Len(chain)] \notin DOMAIN typesMap =>
                        resolved = chain[Len(chain)]
                  /\ (name \in DOMAIN typesMap /\ typesMap[name] = name) =>
                        resolved = name
                  /\ ~TeamRuleViolated =>
                        (satisfying.err = "ErrUnsupportedResourceType" <=>
                            ~\E t \in worker.resourceTypes : t = resolved)

C24_Witness ==
    /\ satisfying.status = "done"
    /\ workerSpec.resourceType = "a"
    /\ workerSpec.resourceTypes =
          <<[name |-> "a", type |-> "b"], [name |-> "b", type |-> "git"]>>
    /\ worker.resourceTypes = {"git"}
    /\ worker.teamID = 0
    /\ satisfying.err # "ErrUnsupportedResourceType"

\* The rule violated first in the order team, resource type, platform, tags
\* ("none" when none is).
FirstViolatedRule ==
    IF TeamRuleViolated THEN "ErrTeamMismatch"
    ELSE IF ResourceTypeRuleViolated THEN "ErrUnsupportedResourceType"
    ELSE IF PlatformRuleViolated THEN "ErrIncompatiblePlatform"
    ELSE IF TagRuleViolated THEN "ErrMismatchedTags"
    ELSE "none"

\* C26: when a rule is violated the error returned is that of the first
\* violated rule in the order team, resource type, platform, tags, and
\* ErrIncompatiblePlatform is returned only when the spec names a platform
\* that is not the worker's.
C26_FirstViolatedRule ==
    satisfying.status = "done" =>
        /\ FirstViolatedRule # "none" => satisfying.err = FirstViolatedRule
        /\ satisfying.err = "ErrIncompatiblePlatform" =>
              workerSpec.platform # "" /\ workerSpec.platform # worker.platform

C26_Witness ==
    /\ satisfying.status = "done"
    /\ ~TeamRuleViolated
    /\ ResourceTypeRuleViolated
    /\ PlatformRuleViolated
    /\ TagRuleViolated
    /\ satisfying.err = "ErrUnsupportedResourceType"

\* =========================================================================
\* gardenWorker.IsVersionCompatible (lines 677-707).
\* =========================================================================

MaxComponents == 2
MaxComponentValue == 2

\* The Release segment of a version: its integer components.
Releases == UNION {[1..k -> 0..MaxComponentValue] : k \in 1..MaxComponents}

\* dbWorker.Version(): nil, a string that does not parse, or one that parses
\* to a release.
WorkerVersions ==
    {[present |-> FALSE, parses |-> FALSE, release |-> <<>>],
     [present |-> TRUE, parses |-> FALSE, release |-> <<>>]}
    \cup [present : {TRUE}, parses : {TRUE}, release : Releases]

Max(a, b) == IF a >= b THEN a ELSE b

\* A release read at position i: beyond its last component it compares as 0.
ComponentAt(release, i) == IF i <= Len(release) THEN release[i] ELSE 0

CompareComponent(a, b) == IF a < b THEN -1 ELSE IF a > b THEN 1 ELSE 0

\* VersionSegment.Compare: the comparison of the first components that differ.
RECURSIVE CompareFrom(_, _, _)
CompareFrom(a, b, i) ==
    IF i > Max(Len(a), Len(b)) THEN 0
    ELSE IF CompareComponent(ComponentAt(a, i), ComponentAt(b, i)) # 0
         THEN CompareComponent(ComponentAt(a, i), ComponentAt(b, i))
         ELSE CompareFrom(a, b, i + 1)

CompareRelease(a, b) == CompareFrom(a, b, 1)

\* A lower worker release is compatible too when the leading components agree.
IsVersionCompatibleLenient(version, compared) ==
    IF ~version.present THEN FALSE
    ELSE IF ~version.parses THEN FALSE
    ELSE IF CompareRelease(version.release, compared) = 0 THEN TRUE
    ELSE CompareComponent(version.release[1], compared[1]) = 0

\* Every worker release higher than the required one is compatible.
IsVersionCompatibleAnyHigher(version, compared) ==
    IF ~version.present THEN FALSE
    ELSE IF ~version.parses THEN FALSE
    ELSE IF CompareRelease(version.release, compared) = 0 THEN TRUE
    ELSE IF CompareRelease(version.release, compared) = -1 THEN FALSE
    ELSE TRUE

\* Lines 677-707.
IsVersionCompatible(version, compared) ==
    IF ~version.present THEN FALSE
    ELSE IF ~version.parses THEN FALSE
    ELSE IF CompareRelease(version.release, compared) = 0 THEN TRUE
    ELSE IF CompareRelease(version.release, compared) = -1 THEN FALSE
    ELSE CompareComponent(version.release[1], compared[1]) = 0

\* One call of worker.IsVersionCompatible(logger, comparedVersion).
CallIsVersionCompatible ==
    /\ versionCompatible = "none"
    /\ versionCompatible' =
          IF IsVersionCompatible(workerVersion, comparedVersion) THEN "true" ELSE "false"
    /\ UNCHANGED <<provisionerVars, lookupVars, shiftVars, mountVars, matcherVars, resolveVars,
                   workerVersion, comparedVersion>>

InitVersion ==
    /\ ProvisionerInit
    /\ LookupIdle
    /\ ShiftIdle
    /\ MountsIdle
    /\ MatcherIdle
    /\ ResolveIdle
    /\ workerVersion \in WorkerVersions
    /\ comparedVersion \in Releases
    /\ versionCompatible = "none"

NextVersion == CallIsVersionCompatible

SpecVersion == InitVersion /\ [][NextVersion]_vars

\* ---- Claims about the version check (SpecVersion) ----

\* The worker's release is lower than the compared one: at the first position
\* where they differ the worker's component is the smaller.
WorkerReleaseLower ==
    \E i \in 1..Max(Len(workerVersion.release), Len(comparedVersion)) :
        /\ ComponentAt(workerVersion.release, i) < ComponentAt(comparedVersion, i)
        /\ \A j \in 1..(i - 1) :
              ComponentAt(workerVersion.release, j) = ComponentAt(comparedVersion, j)

\* C27: a worker version that parses and has the leading release component of
\* the required version is compatible, whether its later components are
\* higher or lower than the required ones.
C27_LeadingComponentSuffices ==
    (/\ versionCompatible # "none"
     /\ workerVersion.parses
     /\ workerVersion.release[1] = comparedVersion[1]) =>
        versionCompatible = "true"

\* C27, amended: a worker version that parses and has the leading release
\* component of the required version is compatible exactly when its release is
\* not lower than the required one (equal, or higher in a later component).
C27_LeadingComponentAndNotLower ==
    (/\ versionCompatible # "none"
     /\ workerVersion.parses
     /\ workerVersion.release[1] = comparedVersion[1]) =>
        (versionCompatible = "true" <=> ~WorkerReleaseLower)

C27_Witness ==
    /\ versionCompatible = "false"
    /\ workerVersion.parses
    /\ workerVersion.release = <<1, 0>>
    /\ comparedVersion = <<1, 1>>

\* =========================================================================
\* Satisfying run statement by statement, evaluation after evaluation on the
\* same worker and spec: the loop of determineUnderlyingTypeName (lines
\* 844-857) one iteration at a time.
\* =========================================================================

MaxEvaluations == 2

\* Lines 818-841, underlyingType being what line 816 returned.
SatisfyingGiven(w, spec, underlyingType) ==
    IF spec.teamID # w.teamID /\ w.teamID # 0
    THEN Rejected("ErrTeamMismatch")
    ELSE IF spec.resourceType # "" /\ underlyingType \notin w.resourceTypes
    THEN Rejected("ErrUnsupportedResourceType")
    ELSE IF spec.platform # "" /\ spec.platform # w.platform
    THEN Rejected("ErrIncompatiblePlatform")
    ELSE IF ~tagsMatch(w, spec.tags)
    THEN Rejected("ErrMismatchedTags")
    ELSE [status |-> "done", worker |-> TRUE, err |-> "nil"]

WithoutName(typesMap, name) ==
    [n \in DOMAIN typesMap \ {name} |-> typesMap[n]]

\* The iteration of lines 852-853, with typesMap and the catalog as given.
Iterated(typesMap, catalog) ==
    /\ resolution.status = "loop"
    /\ resolution.ok
    /\ resolution' =
          [resolution EXCEPT
              !.underlyingTypeName = resolution.underlyingType,
              !.ok = resolution.underlyingType \in DOMAIN resolution.typesMap,
              !.underlyingType =
                  IF resolution.underlyingType \in DOMAIN resolution.typesMap
                  THEN resolution.typesMap[resolution.underlyingType] ELSE "",
              !.typesMap = typesMap,
              !.substitutions = resolution.substitutions + 1]
    /\ workerSpec' = [workerSpec EXCEPT !.resourceTypes = catalog]
    /\ UNCHANGED <<provisionerVars, lookupVars, shiftVars, mountVars, versionVars, worker, satisfying>>

\* Lines 811-813, 815: the team is rejected, or the spec names no resource
\* type, and determineUnderlyingTypeName is not called.
SatisfyingWithoutResolution ==
    /\ resolution.status = "idle"
    /\ Len(resolution.results) < MaxEvaluations
    /\ \/ workerSpec.teamID # worker.teamID /\ worker.teamID # 0
       \/ workerSpec.resourceType = ""
    /\ resolution' =
          [NoResolution EXCEPT
              !.results = Append(resolution.results,
                                 SatisfyingGiven(worker, workerSpec, ""))]
    /\ UNCHANGED <<provisionerVars, lookupVars, shiftVars, mountVars, versionVars, matcherVars>>

\* Lines 845-850: the local map is built and the name looked up.
determineUnderlyingTypeNameEnter ==
    /\ resolution.status = "idle"
    /\ Len(resolution.results) < MaxEvaluations
    /\ ~(workerSpec.teamID # worker.teamID /\ worker.teamID # 0)
    /\ workerSpec.resourceType # ""
    /\ LET typesMap == resourceTypesMap(workerSpec.resourceTypes)
           found == workerSpec.resourceType \in DOMAIN typesMap
       IN resolution' =
            [status |-> "loop",
             underlyingTypeName |-> workerSpec.resourceType,
             underlyingType |-> IF found THEN typesMap[workerSpec.resourceType] ELSE "",
             ok |-> found,
             typesMap |-> typesMap,
             substitutions |-> 0,
             results |-> resolution.results]
    /\ UNCHANGED <<provisionerVars, lookupVars, shiftVars, mountVars, versionVars, matcherVars>>

\* The name looked up is not deleted from the map.
determineUnderlyingTypeNameIterateWithoutDelete ==
    Iterated(resolution.typesMap, workerSpec.resourceTypes)

\* The name looked up is deleted from the spec's catalog as well.
determineUnderlyingTypeNameIterateOnCatalog ==
    LET isOther(t) == t.name # resolution.underlyingType IN
        Iterated(WithoutName(resolution.typesMap, resolution.underlyingType),
                 SelectSeq(workerSpec.resourceTypes, isOther))

\* Lines 851-855, one iteration: the name becomes the Type of the entry found,
\* is looked up, and is deleted from the local map.
determineUnderlyingTypeNameIterate ==
    Iterated(WithoutName(resolution.typesMap, resolution.underlyingType),
             workerSpec.resourceTypes)

\* Lines 856, 818-841: the loop is left, the name returned, and Satisfying
\* goes on to its return.
determineUnderlyingTypeNameReturn ==
    /\ resolution.status = "loop"
    /\ ~resolution.ok
    /\ resolution' =
          [resolution EXCEPT
              !.status = "idle",
              !.results = Append(resolution.results,
                                 SatisfyingGiven(worker, workerSpec,
                                                 resolution.underlyingTypeName))]
    /\ UNCHANGED <<provisionerVars, lookupVars, shiftVars, mountVars, versionVars, matcherVars>>

InitResolve ==
    /\ ProvisionerInit
    /\ LookupIdle
    /\ ShiftIdle
    /\ MountsIdle
    /\ VersionIdle
    /\ worker \in {w \in Workers : w.platform = "linux" /\ w.tags = {}}
    /\ workerSpec \in {spec \in WorkerSpecs : spec.platform = "" /\ spec.tags = {}}
    /\ satisfying = [status |-> "idle"]
    /\ resolution = NoResolution

NextResolve ==
    \/ SatisfyingWithoutResolution
    \/ determineUnderlyingTypeNameEnter
    \/ determineUnderlyingTypeNameIterate
    \/ determineUnderlyingTypeNameReturn

\* A function that was called runs its statements.
SpecResolve == InitResolve /\ [][NextResolve]_vars /\ WF_vars(NextResolve)

\* ---- Claims about the resolution (SpecResolve) ----

\* C25: the loop of determineUnderlyingTypeName makes at most (number of
\* catalog entries + 1) substitutions, and every evaluation of Satisfying ends,
\* with the worker or with one of the selection errors.
C25_ResolutionTerminates ==
    /\ [](resolution.substitutions <= Len(workerSpec.resourceTypes) + 1)
    /\ [](\A i \in DOMAIN resolution.results :
            \/ resolution.results[i].worker /\ resolution.results[i].err = "nil"
            \/ /\ ~resolution.results[i].worker
               /\ resolution.results[i].err \in SelectionErrors)
    /\ <>(resolution.status = "idle" /\ Len(resolution.results) = MaxEvaluations)

C25_Witness ==
    /\ resolution.status = "idle"
    /\ Len(resolution.results) > 0
    /\ workerSpec.resourceTypes =
          <<[name |-> "a", type |-> "b"], [name |-> "b", type |-> "a"]>>
    /\ resolution.substitutions = 3

\* C28: an evaluation of Satisfying changes neither the worker nor the spec
\* (its resource-type catalog included), and the evaluations of one worker and
\* one spec all return the same result, the one of Satisfying.
C28_SatisfyingIsPure ==
    /\ [][worker' = worker /\ workerSpec' = workerSpec]_vars
    /\ [](\A i \in DOMAIN resolution.results :
            /\ resolution.results[i] = resolution.results[1]
            /\ resolution.results[i] = Satisfying(worker, workerSpec))

C28_Witness ==
    /\ Len(resolution.results) = 2
    /\ workerSpec.resourceType = "a"
    /\ workerSpec.resourceTypes =
          <<[name |-> "a", type |-> "b"], [name |-> "b", type |-> "git"]>>
    /\ resolution.substitutions = 2
    /\ resolution.typesMap # resourceTypesMap(workerSpec.resourceTypes)
    /\ resolution.results[1] = resolution.results[2]

\* ---- Further claims about FindOrCreateContainer (Spec) ----

\* C29: after the Lookup of a creating record's handle, a call whose Lookup
\* found no container goes on to the lock acquisition with nothing returned,
\* and a call whose Lookup failed otherwise returns that error at once: it
\* holds no lock, has made none of the creation path's calls, and leaves the
\* record, the runtime and the volumes as they were.
C29_CreatingLookupErrors ==
    [][\A c \in Callers :
          (pc[c] = "lookupCreating" /\ pc'[c] # "lookupCreating") =>
              IF pc'[c] = "start"
              THEN /\ result'[c] = "ErrLookup"
                   /\ records' = records
                   /\ garden' = garden
                   /\ volumes' = volumes
                   /\ \A h \in Handles : locks[h] # c /\ locks'[h] = locks[h]
                   /\ done'[c] \cap CreationEffects = {}
              ELSE cur[c] \notin garden =>
                      /\ pc'[c] = "acquire"
                      /\ result'[c] = result[c]
                      /\ records' = records
      ]_vars

C29_Witness ==
    \E c \in Callers :
        /\ Returned(c)
        /\ result[c] = "ErrLookup"
        /\ "foundCreated" \notin done[c]
        /\ records[cur[c]] = "creating"
        /\ done[c] \cap CreationEffects = {}

\* A call that got its container from the Lookup of line 206, not from Create.
RecoveryCall(c) ==
    /\ gardenContainer[c]
    /\ "create" \notin done[c]
    /\ done[c] \cap {"record", "foundCreating"} # {}

\* C30: a call whose Lookup finds the container of a creating record goes
\* straight to Created(): it acquires no lock, fetches no image, allocates no
\* volume and does not call Create; Created() makes the record created, and
\* the call that returns a container has a created record.
C30_RecoveryOfInterruptedAttempt ==
    /\ [][\A c \in Callers :
            (/\ pc[c] = "lookupCreating"
             /\ cur[c] \in garden
             /\ pc'[c] \notin {"lookupCreating", "start"}) =>
                /\ pc'[c] = "markCreated"
                /\ gardenContainer'[c]
                /\ done'[c] = done[c]
                /\ locks' = locks
                /\ volumes' = volumes
                /\ garden' = garden
         ]_vars
    /\ [][\A c \in Callers :
            (RecoveryCall(c) /\ pc[c] = "markCreated" /\ pc'[c] = "construct") =>
                records'[cur[c]] = "created"
         ]_vars
    /\ [](\A c \in Callers :
            RecoveryCall(c) =>
                /\ done[c] \cap {"lock", "denied", "fetch", "volume", "create"} = {}
                /\ \A h \in Handles : locks[h] # c
                /\ (Returned(c) /\ result[c] = "container") =>
                      "created" \in done[c] /\ records[cur[c]] = "created")

C30_Witness ==
    \E c \in Callers :
        /\ RecoveryCall(c)
        /\ Returned(c)
        /\ result[c] = "container"
        /\ "foundCreating" \in done[c]
        /\ "created" \in done[c]
        /\ records[cur[c]] = "created"

\* C31: the Destroy of line 267 is only ever called by a call that made the
\* container with Create itself.
C31_DestroyOnlyOwnContainer ==
    [][\A c \in Callers :
          (pc[c] = "destroy" /\ pc'[c] # "destroy" /\ nDestroy'[c] > nDestroy[c]) =>
              "create" \in done[c]
      ]_vars

\* C32: a call that returns an image error, from GetImage or from
\* FetchForContainer, has called Failed() on the record first.
C32_ImageErrorMarksFailed ==
    \A c \in Callers :
        (Returned(c) /\ result[c] \in {"ErrGetImage", "ErrFetch"}) =>
            "failed" \in done[c]

\* C32, amended: a call whose FetchForContainer fails calls Failed() on its
\* record (which becomes failed unless Failed() does not apply) and returns
\* the fetch error; a call whose GetImage fails returns that error before any
\* record is looked up, and changes no record, lock, container or volume.
C32_FetchErrorMarksFailed ==
    [][\A c \in Callers :
          /\ (pc[c] = "fetchFailed" /\ pc'[c] # "fetchFailed") =>
                /\ pc'[c] = "start"
                /\ result'[c] = "ErrFetch"
                /\ "failed" \in done'[c]
                /\ records'[cur[c]] = "failed" \/ records' = records
          /\ (pc[c] = "start" /\ calls' # calls /\ result'[c] = "ErrGetImage") =>
                /\ pc'[c] = "start"
                /\ done'[c] = {}
                /\ records' = records
                /\ locks' = locks
                /\ garden' = garden
                /\ volumes' = volumes
      ]_vars

C32_Witness ==
    \E c \in Callers :
        /\ Returned(c)
        /\ result[c] = "ErrFetch"
        /\ "lock" \in done[c]
        /\ "failed" \in done[c]
        /\ records[cur[c]] = "failed"

\* The positions of a call between the lock acquisition and its return.
UnderLock == {"fetch", "fetchFailed", "volumes", "gardenCreate", "createFailed",
              "markCreated", "destroy", "construct"}

\* C33: a call that acquired the creating lock holds it until it returns, in
\* particular from the return of Create to the end of Created() and of the
\* Destroy; meanwhile no other call holds the lock of that record.
C33_LockHeldUntilReturn ==
    \A c \in Callers :
        (pc[c] \in UnderLock /\ "lock" \in done[c]) =>
            /\ locks[cur[c]] = c
            /\ \A d \in Callers \ {c} :
                  ~(pc[d] \in UnderLock /\ "lock" \in done[d] /\ cur[d] = cur[c])

C33_Witness ==
    \E c, d \in Callers :
        /\ c # d
        /\ pc[c] = "markCreated"
        /\ "create" \in done[c]
        /\ records[cur[c]] = "creating"
        /\ locks[cur[c]] = c
        /\ pc[d] = "acquire"
        /\ cur[d] = cur[c]

\* C37: a call whose Acquire returns an error returns that error; it has
\* fetched no image, allocated no volume and not called Create, the failed
\* containers counter is not incremented and the record stays as it was.
C37_AcquireError ==
    [][\A c \in Callers :
          (pc[c] = "acquire" /\ pc'[c] = "start" /\ "denied" \notin done'[c]) =>
              /\ result'[c] = "ErrAcquire"
              /\ done'[c] \cap CreationEffects = {}
              /\ failedContainers' = failedContainers
              /\ containersCreated' = containersCreated
              /\ records' = records
              /\ garden' = garden
              /\ volumes' = volumes
      ]_vars

C37_Witness ==
    \E c \in Callers :
        /\ Returned(c)
        /\ result[c] = "ErrAcquire"
        /\ records[cur[c]] = "creating"
        /\ failedContainers = 0

\* A step in which a Create of gardenClient succeeds.
CreateSucceeds ==
    \E c \in Callers :
        /\ pc[c] = "gardenCreate"
        /\ pc'[c] = "markCreated"
        /\ cur[c] \notin garden
        /\ garden' = garden \cup {cur[c]}

\* C38: the containers-created counter is incremented by one in exactly the
\* steps in which a Create succeeds, before Created() is called, and in no
\* other step (fast path, recovery path, Created(), Destroy).
C38_ContainersCreatedCountsCreates ==
    /\ [][IF CreateSucceeds
          THEN containersCreated' = containersCreated + 1
          ELSE containersCreated' = containersCreated]_vars
    /\ [](Cardinality(garden) <= containersCreated)

C38_Witness ==
    \E c \in Callers :
        /\ containersCreated = 1
        /\ Returned(c)
        /\ result[c] = "ErrCreated"
        /\ "create" \in done[c]
        /\ "destroy" \in done[c]
        /\ garden = {}

\* ---- Further claims about the mount plan (SpecMounts) ----

\* The calls of the plan that are of kind op for the idx-th item of kind by.
CallsOf(op, by, idx) ==
    {k \in DOMAIN plan.calls :
        plan.calls[k].op = op /\ plan.calls[k].by = by /\ plan.calls[k].idx = idx}

MountsOf(by, idx) ==
    {m \in DOMAIN plan.volumeMounts :
        plan.volumeMounts[m].by = by /\ plan.volumeMounts[m].idx = idx}

\* The working directory is the cleaned destination of an input or an output.
DirIsADestination ==
    \/ \E i \in DOMAIN containerSpec.inputs :
          Clean(containerSpec.inputs[i].dest) = Clean(containerSpec.dir)
    \/ \E o \in containerSpec.outputs : Clean(o) = Clean(containerSpec.dir)

\* C34: a run of the mount plan that reaches Create has allocated one empty
\* volume for the working directory, mounted at it, exactly when the spec's
\* Dir is not empty and is no input's or output's destination after cleaning;
\* otherwise it has allocated none and has no mount of its own for it.
C34_WorkdirVolume ==
    (plan.status # "idle" /\ plan.failedCall = 0) =>
        IF containerSpec.dir # "" /\ ~DirIsADestination
        THEN /\ Cardinality(CallsOf("FindOrCreateVolumeForContainer", "workdir", 0)) = 1
             /\ Cardinality(MountsOf("workdir", 0)) = 1
             /\ \A m \in MountsOf("workdir", 0) :
                   plan.volumeMounts[m].mountPath = containerSpec.dir
        ELSE /\ \A k \in DOMAIN plan.calls : plan.calls[k].by # "workdir"
             /\ MountsOf("workdir", 0) = {}

C34_Witness ==
    /\ plan.status = "created"
    /\ containerSpec.dir = "/data"
    /\ Len(containerSpec.inputs) = 1
    /\ containerSpec.inputs[1].dest = "/data/"
    /\ containerSpec.outputs = {}
    /\ Len(plan.volumeMounts) = 2

\* C35: in a run of the mount plan that reaches Create, every input has, in
\* the order of the inputs, either one copy-on-write volume and no stream (its
\* source has a volume on the worker) or one empty volume and one stream of
\* the source into it, and one mount, at its cleaned destination.
C35_InputVolumes ==
    (plan.status # "idle" /\ plan.failedCall = 0) =>
        \A i \in DOMAIN containerSpec.inputs :
            LET cow == CallsOf("FindOrCreateCOWVolumeForContainer", "input", i)
                empty == CallsOf("FindOrCreateVolumeForContainer", "input", i)
                stream == CallsOf("StreamTo", "input", i)
            IN  /\ IF containerSpec.inputs[i].found
                   THEN Cardinality(cow) = 1 /\ empty = {} /\ stream = {}
                   ELSE /\ cow = {}
                        /\ Cardinality(empty) = 1
                        /\ Cardinality(stream) = 1
                        /\ \A a \in empty : \A b \in stream : a < b
                /\ Cardinality(MountsOf("input", i)) = 1
                /\ \A m \in MountsOf("input", i) :
                      plan.volumeMounts[m].mountPath = Clean(containerSpec.inputs[i].dest)
                /\ \A j \in DOMAIN containerSpec.inputs :
                      i < j => \A a, b \in DOMAIN plan.calls :
                                  (/\ plan.calls[a].by = "input" /\ plan.calls[a].idx = i
                                   /\ plan.calls[b].by = "input" /\ plan.calls[b].idx = j)
                                      => a < b

C35_Witness ==
    /\ plan.status = "created"
    /\ Len(containerSpec.inputs) = 2
    /\ containerSpec.inputs[1].found
    /\ ~containerSpec.inputs[2].found
    /\ containerSpec.inputs[1].dest = "/scratch"
    /\ containerSpec.inputs[2].dest = "/data/"
    /\ Cardinality(CallsOf("StreamTo", "input", 2)) = 1

\* ---- Further claim about version compatibility (SpecVersion) ----

\* The worker's release and the required one have the same components, a
\* missing trailing component counting as 0.
ReleasesEqual ==
    \A i \in 1..Max(Len(workerVersion.release), Len(comparedVersion)) :
        ComponentAt(workerVersion.release, i) = ComponentAt(comparedVersion, i)

\* C36: IsVersionCompatible answers false for a worker without a version or
\* with a version that does not parse, true for a worker whose release equals
\* the required one, and false for a worker whose release differs from the
\* required one and whose leading component is not the required leading one.
C36_VersionCompatibility ==
    versionCompatible # "none" =>
        /\ (~workerVersion.present \/ ~workerVersion.parses) =>
              versionCompatible = "false"
        /\ (workerVersion.parses /\ ReleasesEqual) => versionCompatible = "true"
        /\ (/\ workerVersion.parses
            /\ ~ReleasesEqual
            /\ workerVersion.release[1] # comparedVersion[1]) =>
              versionCompatible = "false"

C36_Witness ==
    /\ versionCompatible = "false"
    /\ workerVersion.parses
    /\ workerVersion.release = <<2, 0>>
    /\ comparedVersion = <<1, 2>>

\* ------------------------------------------- FindCreatedContainerByHandle

TeamIDs == {1, 2}

\* The team the provisioner's records belong to.
ContainerTeam == 1

\* dbTeamFactory.GetByID(teamID).FindCreatedContainerByHandle(handle) finds the
\* record: it is the team's and it is Created.
HasCreatedContainer(teamID, handle) ==
    teamID = ContainerTeam /\ records[handle] = "created"

\* The store answers found for a record that is still being created.
HasLiveContainer(teamID, handle) ==
    teamID = ContainerTeam /\ records[handle] \in {"creating", "created"}

FindCreatedContainerByHandleFrame ==
    UNCHANGED <<provisionerVars, mountVars, matcherVars, versionVars, resolveVars,
                shiftVars>>

\* Lines 286-294, gardenClient.Lookup(handle) found the container.
FindCreatedContainerByHandleLookup(handle, teamID) ==
    /\ lookup.status = "idle"
    /\ handle \in garden
    /\ lookup' = [NoLookup EXCEPT !.status = "lookedUp", !.handle = handle,
                                  !.teamID = teamID, !.gardenErr = "nil"]
    /\ FindCreatedContainerByHandleFrame

\* Lines 286-291: garden.ContainerNotFoundError, (nil, false, nil).
FindCreatedContainerByHandleLookupNotFound(handle, teamID) ==
    /\ lookup.status = "idle"
    /\ handle \notin garden
    /\ lookup' = [NoLookup EXCEPT !.status = "returned", !.handle = handle,
                                  !.teamID = teamID,
                                  !.gardenErr = "ErrContainerNotFound"]
    /\ FindCreatedContainerByHandleFrame

\* Lines 286-294: any other error of Lookup, (nil, false, err).
FindCreatedContainerByHandleLookupErr(handle, teamID) ==
    /\ lookup.status = "idle"
    /\ lookup' = [NoLookup EXCEPT !.status = "returned", !.handle = handle,
                                  !.teamID = teamID, !.gardenErr = "ErrLookup",
                                  !.err = "ErrLookup"]
    /\ FindCreatedContainerByHandleFrame

\* The record is found whether it is Created or still being created.
FindCreatedContainerByHandleInDbAnyState ==
    /\ lookup.status = "lookedUp"
    /\ HasLiveContainer(lookup.teamID, lookup.handle)
    /\ lookup' = [lookup EXCEPT !.status = "returned", !.dbErr = "nil",
                                !.dbFound = TRUE, !.container = lookup.handle,
                                !.found = TRUE]
    /\ FindCreatedContainerByHandleFrame

\* Lines 296-327: the store has the record, FindVolumesForContainer and
\* newGardenWorkerContainer succeed, (container, true, nil).
FindCreatedContainerByHandleInDb ==
    /\ lookup.status = "lookedUp"
    /\ HasCreatedContainer(lookup.teamID, lookup.handle)
    /\ lookup' = [lookup EXCEPT !.status = "returned", !.dbErr = "nil",
                                !.dbFound = TRUE, !.container = lookup.handle,
                                !.found = TRUE]
    /\ FindCreatedContainerByHandleFrame

\* Lines 296-304: the store has no such record, (nil, false, nil).
FindCreatedContainerByHandleInDbNotFound ==
    /\ lookup.status = "lookedUp"
    /\ ~HasCreatedContainer(lookup.teamID, lookup.handle)
    /\ lookup' = [lookup EXCEPT !.status = "returned", !.dbErr = "nil"]
    /\ FindCreatedContainerByHandleFrame

\* Lines 296-300: the store's query failed, (nil, false, err).
FindCreatedContainerByHandleInDbErr ==
    /\ lookup.status = "lookedUp"
    /\ lookup' = [lookup EXCEPT !.status = "returned", !.dbErr = "ErrFind",
                                !.err = "ErrFind"]
    /\ FindCreatedContainerByHandleFrame

\* Lines 306-325: the record was found and FindVolumesForContainer or
\* newGardenWorkerContainer failed, (nil, false, err).
FindCreatedContainerByHandleConstructErr(e) ==
    /\ lookup.status = "lookedUp"
    /\ HasCreatedContainer(lookup.teamID, lookup.handle)
    /\ lookup' = [lookup EXCEPT !.status = "returned", !.dbErr = "nil",
                                !.dbFound = TRUE, !.err = e]
    /\ FindCreatedContainerByHandleFrame

NextLookup ==
    \/ Next
    \/ \E handle \in Handles, teamID \in TeamIDs :
          \/ FindCreatedContainerByHandleLookup(handle, teamID)
          \/ FindCreatedContainerByHandleLookupNotFound(handle, teamID)
          \/ FindCreatedContainerByHandleLookupErr(handle, teamID)
    \/ FindCreatedContainerByHandleInDb
    \/ FindCreatedContainerByHandleInDbNotFound
    \/ FindCreatedContainerByHandleInDbErr
    \/ \E e \in {"ErrFindVolumes", "ErrConstruct"} :
          FindCreatedContainerByHandleConstructErr(e)

\* One call of FindCreatedContainerByHandle beside the callers of
\* FindOrCreateContainer.
SpecLookup == Init /\ [][NextLookup]_vars

\* What the call returned: is it (nil, false, e)?
ReturnedNothing(e) ==
    lookup.container = 0 /\ ~lookup.found /\ lookup.err = e

\* C39: FindCreatedContainerByHandle returns found only with the container,
\* after the runtime had a container of the handle and the team's store a
\* Created record of it; ContainerNotFound from the runtime gives (nil, false,
\* nil) without a query of the store, a record the store does not have gives
\* (nil, false, nil), every other error of the runtime or the store gives
\* (nil, false, that error), and no step of the call changes a record, a
\* volume, a container, a lock or a metric.
C39_FindCreatedContainerByHandle ==
    /\ [](lookup.status = "returned" =>
            /\ lookup.found =>
                  /\ lookup.gardenErr = "nil"
                  /\ lookup.dbErr = "nil"
                  /\ lookup.dbFound
                  /\ lookup.container = lookup.handle
                  /\ lookup.err = "nil"
            /\ lookup.gardenErr = "ErrContainerNotFound" =>
                  ReturnedNothing("nil") /\ lookup.dbErr = "none"
            /\ lookup.gardenErr = "ErrLookup" =>
                  ReturnedNothing("ErrLookup") /\ lookup.dbErr = "none"
            /\ (lookup.dbErr = "nil" /\ ~lookup.dbFound) => ReturnedNothing("nil")
            /\ lookup.dbErr = "ErrFind" => ReturnedNothing("ErrFind")
            /\ lookup.err # "nil" => ReturnedNothing(lookup.err))
    /\ [][lookup' # lookup =>
            /\ UNCHANGED provisionerVars
            /\ (lookup.status = "idle" /\ lookup'.gardenErr = "nil") =>
                  lookup'.handle \in garden
            /\ lookup'.gardenErr = "ErrContainerNotFound" =>
                  lookup'.handle \notin garden
            /\ (lookup.status = "lookedUp" /\ lookup'.dbFound) =>
                  /\ lookup.teamID = ContainerTeam
                  /\ records[lookup.handle] = "created"
            /\ (lookup.status = "lookedUp" /\ lookup'.dbErr = "nil" /\ ~lookup'.dbFound) =>
                  ~(/\ lookup.teamID = ContainerTeam
                    /\ records[lookup.handle] = "created")]_vars

C39_Witness ==
    /\ lookup.status = "returned"
    /\ lookup.found
    /\ lookup.handle \in garden
    /\ records[lookup.handle] = "created"
    /\ \E c \in Callers : result[c] = "container"

\* ------------------------------------ dashboard: shiftPipelines (Elm)

MaxPipelines == 3

TeamNames == {"main"}

\* Models.Pipeline, as far as shiftPipelineTo reads it.
Pipelines == [name : 1..MaxPipelines, teamName : TeamNames]

\* A Group: a team and its pipelines, each once.
Groups ==
    [teamName : TeamNames,
     pipelines : {l \in SeqsUpTo(Pipelines, MaxPipelines) :
                     \A i, j \in DOMAIN l : l[i] = l[j] => i = j}]

\* List.drop: a count of 0 or less drops nothing.
ListDrop(n, list) ==
    IF n <= 0 THEN list ELSE SubSeq(list, n + 1, Len(list))

\* The dragged pipeline is not counted as a position when it is passed over.
RECURSIVE shiftPipelineToNotCountingDragged(_, _, _)
shiftPipelineToNotCountingDragged(pipeline, position, pipelines) ==
    IF pipelines = <<>>
    THEN IF position < 0 THEN <<>> ELSE <<pipeline>>
    ELSE LET p == Head(pipelines)
             ps == Tail(pipelines)
         IN  IF p.teamName # pipeline.teamName
             THEN <<p>> \o shiftPipelineToNotCountingDragged(pipeline, position, ps)
             ELSE IF p = pipeline
             THEN shiftPipelineToNotCountingDragged(pipeline, position, ps)
             ELSE IF position = 0
             THEN <<pipeline, p>> \o
                  shiftPipelineToNotCountingDragged(pipeline, position - 1, ps)
             ELSE <<p>> \o shiftPipelineToNotCountingDragged(pipeline, position - 1, ps)

\* part_001, lines 357-378.
RECURSIVE shiftPipelineTo(_, _, _)
shiftPipelineTo(pipeline, position, pipelines) ==
    IF pipelines = <<>>
    THEN IF position < 0 THEN <<>> ELSE <<pipeline>>
    ELSE LET p == Head(pipelines)
             ps == Tail(pipelines)
         IN  IF p.teamName # pipeline.teamName
             THEN <<p>> \o shiftPipelineTo(pipeline, position, ps)
             ELSE IF p = pipeline
             THEN shiftPipelineTo(pipeline, position - 1, ps)
             ELSE IF position = 0
             THEN <<pipeline, p>> \o shiftPipelineTo(pipeline, position - 1, ps)
             ELSE <<p>> \o shiftPipelineTo(pipeline, position - 1, ps)

\* part_001, lines 329-349.
shiftPipelines(drag, drop, g) ==
    IF drag = drop THEN g
    ELSE IF ListDrop(drag, g.pipelines) = <<>>
         THEN g
         ELSE [g EXCEPT !.pipelines =
                  shiftPipelineTo(Head(ListDrop(drag, g.pipelines)), drop, g.pipelines)]

\* One call of shiftPipelines dragIndex dropIndex group.
CallShiftPipelines ==
    /\ shifted.status = "idle"
    /\ shifted' = [status |-> "returned",
                   group |-> shiftPipelines(dragIndex, dropIndex, group)]
    /\ UNCHANGED <<provisionerVars, mountVars, matcherVars, versionVars, resolveVars,
                   lookupVars, group, dragIndex, dropIndex>>

\* The indices the view gives out (part_001, lines 430-463: the cards are
\* numbered from 0 and the last drop area has the length of the list), over a
\* list that may have become shorter since.
InitShift ==
    /\ ProvisionerInit
    /\ MountsIdle
    /\ MatcherIdle
    /\ VersionIdle
    /\ ResolveIdle
    /\ LookupIdle
    /\ group \in Groups
    /\ dragIndex \in 0..MaxPipelines
    /\ dropIndex \in 0..(MaxPipelines + 1)
    /\ shifted = [status |-> "idle"]

NextShift == CallShiftPipelines

SpecShift == InitShift /\ [][NextShift]_vars

\* Where pipeline p is in the list.
PositionIn(list, p) == CHOOSE i \in DOMAIN list : list[i] = p

\* C40: shiftPipelines returns the group as it is when dragIndex = dropIndex
\* or when dragIndex is not the index of a pipeline; otherwise it returns the
\* group's pipelines, each once, the dragged one just before the one that was
\* at dropIndex (last when dropIndex is not the index of a pipeline) and the
\* others in the order they had.
C40_ShiftPipelines ==
    shifted.status = "returned" =>
        LET ps == group.pipelines
            n == Len(ps)
            out == shifted.group.pipelines
        IN  /\ shifted.group.teamName = group.teamName
            /\ (dragIndex >= n \/ dragIndex = dropIndex) => out = ps
            /\ (dragIndex < n /\ dragIndex # dropIndex) =>
                  LET d == ps[dragIndex + 1]
                  IN  /\ Len(out) = n
                      /\ \A i \in 1..n :
                            Cardinality({k \in DOMAIN out : out[k] = ps[i]}) = 1
                      /\ IF dropIndex < n
                         THEN \E k \in 1..(n - 1) :
                                 out[k] = d /\ out[k + 1] = ps[dropIndex + 1]
                         ELSE out[n] = d
                      /\ \A i, j \in 1..n :
                            (i < j /\ ps[i] # d /\ ps[j] # d) =>
                                PositionIn(out, ps[i]) < PositionIn(out, ps[j])

C40_Witness ==
    /\ shifted.status = "returned"
    /\ Len(group.pipelines) = 3
    /\ dragIndex = 0
    /\ dropIndex = 2
    /\ shifted.group.pipelines =
          <<group.pipelines[2], group.pipelines[1], group.pipelines[3]>>
====
